---- MODULE Spec2Model ----
(***************************************************************************)
(* audriver: a database/sql driver wrapper that records every INSERT,      *)
(* UPDATE and DELETE in the table database_modifications.                  *)
(*                                                                         *)
(* SQL text is modelled as a sequence of lexical atoms (keywords,          *)
(* identifiers pieces, quotes, whitespace atoms " " and "\n", comment      *)
(* delimiters, placeholders); a Go string operation on bytes becomes the   *)
(* same operation on atoms.  The wrapped driver (lib/pq, txdb, ...) and    *)
(* the PostgreSQL parser are the environment: their results are inputs.    *)
(***************************************************************************)
EXTENDS Integers, Sequences, FiniteSets, TLC

VARIABLES
    readOnly,      \* Driver.readOnly, copied to Conn.readOnly and txConn.readOnly
    tableFilters,  \* databaseModificationBuilder.tableFilters
    operatorIDExtractor,
                   \* databaseModificationBuilder.operatorIDExtractor: the default
                   \* one or a configured one
    caps,          \* the optional driver interfaces the wrapped objects implement
    txState,       \* life cycle of the loggingTx returned by BeginTx
    txCtx,         \* loggingTx._ctx, the governing context: none, active or canceled
    buf,           \* buffer.ms of the loggingTx
    db,            \* the database behind the wrapped connection
    clock,         \* number of handler calls so far: the source of uuid.New and time.Now
    analysed,      \* the classifier's, extractor's and interpolator's results for the
                   \* statements of the model, computed once at start
    last,          \* the last handler call: its inputs, the driver calls it made, its result
    callers,       \* concurrent callers, each on a connection of its own: the position
                   \* of each in its loop and in the Conn.ExecContext it is running
    asked          \* the last call of one of the pure functions on its own, such as
                   \* TableFilters.ShouldLog: its name, its arguments and its result

\* what newAuditDriver and Open fix for the life of a connection
config == <<readOnly, tableFilters, operatorIDExtractor, caps, analysed>>

vars == <<config, txState, txCtx, buf, db, clock, last, callers, asked>>

-----------------------------------------------------------------------------
(* Bounds of the model.                                                    *)

MaxOps == 4
MaxTx == 2

\* longest filter chain asked about
MaxChain == 3

\* longest argument list handed to InterpolateSQL
MaxArgs == 3

\* most pieces of white space and comments before a statement
MaxLead == 3

\* most records in a batch
MaxBatch == 3

\* goroutines and calls of each in the concurrent scenario
NumGoroutines == 2
OperationsPerGoroutine == 2

-----------------------------------------------------------------------------
(* Go string helpers on atom sequences.                                    *)

Spaces == {" ", "\t", "\r", "\n"}

Drop(s, n) == IF n >= Len(s) THEN <<>> ELSE SubSeq(s, n + 1, Len(s))

\* strings.TrimLeft(s, " \t\r\n")
RECURSIVE TrimLeft(_)
TrimLeft(s) ==
    IF s # <<>> /\ Head(s) \in Spaces THEN TrimLeft(Tail(s)) ELSE s

\* strings.HasPrefix on a one-atom prefix such as "--" or "/*"
HasPrefixAtom(s, a) == s # <<>> /\ Head(s) = a

\* strings.HasPrefix(tableName, prefix)
HasPrefix(s, p) == Len(p) <= Len(s) /\ SubSeq(s, 1, Len(p)) = p

\* strings.Index(s, a): the first position of atom a, 0 when absent
IndexOf(s, a) ==
    IF \E i \in 1..Len(s) : s[i] = a
    THEN CHOOSE i \in 1..Len(s) : s[i] = a /\ \A j \in 1..(i - 1) : s[j] # a
    ELSE 0

\* the (?i) flag of the regular expressions
Upper(a) ==
    CASE a = "insert" -> "INSERT"
      [] a = "update" -> "UPDATE"
      [] a = "delete" -> "DELETE"
      [] a = "into" -> "INTO"
      [] a = "from" -> "FROM"
      [] a = "with" -> "WITH"
      [] OTHER -> a

-----------------------------------------------------------------------------
(* The statements the callers issue, as atom sequences.                    *)

\* INSERT INTO "users" ("id") VALUES ($1)
SqlInsert ==
    <<"INSERT", " ", "INTO", " ", "\"", "users", "\"", " ", "(", "\"", "id", "\"", ")",
      " ", "VALUES", " ", "(", "$1", ")">>

\* UPDATE users SET name = $1
SqlUpdate ==
    <<"UPDATE", " ", "users", " ", "SET", " ", "name", " ", "=", " ", "$1">>

\* DELETE FROM temp_users
SqlDeleteTemp == <<"DELETE", " ", "FROM", " ", "temp_", "users">>

\* SELECT * FROM users
SqlSelect == <<"SELECT", " ", "*", " ", "FROM", " ", "users">>

\* CREATE TABLE t (id int)
SqlCreate == <<"CREATE", " ", "TABLE", " ", "t", " ", "(", "id", " ", "int", ")">>

\* /* c */ -- c
\* INSERT INTO users DEFAULT VALUES
SqlCommentedInsert ==
    <<"/*", "c", "*/", " ", "--", "c", "\n", "INSERT", " ", "INTO", " ", "users", " ",
      "DEFAULT", " ", "VALUES">>

\* INSERT INTO users DEFAULT VALUES
SqlInsertDefault ==
    <<"INSERT", " ", "INTO", " ", "users", " ", "DEFAULT", " ", "VALUES">>

\* INSERT /* c */ INTO users DEFAULT VALUES
SqlInsertInnerComment ==
    <<"INSERT", " ", "/*", "c", "*/", " ", "INTO", " ", "users", " ", "DEFAULT", " ",
      "VALUES">>

\* INSERT INTO "users" ("id","name") VALUES ($1,$2)
SqlInsertNamed ==
    <<"INSERT", " ", "INTO", " ", "\"", "users", "\"", " ", "(", "\"", "id", "\"", ",",
      "\"", "name", "\"", ")", " ", "VALUES", " ", "(", "$1", ",", "$2", ")">>

\* SELECT * FROM "users" WHERE "id" = $1
SqlSelectById ==
    <<"SELECT", " ", "*", " ", "FROM", " ", "\"", "users", "\"", " ", "WHERE", " ", "\"",
      "id", "\"", " ", "=", " ", "$1">>

\* INSERT users oops
SqlBrokenInsert == <<"INSERT", " ", "users", " ", "oops">>

\* /* c INSERT INTO users DEFAULT VALUES
SqlOpenComment == <<"/*", "c", " ">> \o SqlInsertDefault

\* FOO BAR
SqlNoStatement == <<"FOO", " ", "BAR">>

\* the statements the parser rejects
Malformed == {SqlBrokenInsert, SqlOpenComment, SqlNoStatement}

Statements ==
    {SqlInsert, SqlUpdate, SqlDeleteTemp, SqlSelect, SqlCreate, SqlCommentedInsert,
     SqlInsertInnerComment, SqlInsertNamed, SqlSelectById}
        \cup Malformed

\* the statements issued through the connection and the transaction
Issued ==
    {SqlInsert, SqlDeleteTemp, SqlSelect, SqlCommentedInsert, SqlInsertInnerComment}

\* the bound arguments that go with a statement: one text value per placeholder
ArgsOf(sql) ==
    IF sql \in {SqlInsert, SqlSelectById} THEN <<[t |-> "string", v |-> <<"u1">>]>>
    ELSE IF sql = SqlUpdate THEN <<[t |-> "string", v |-> <<"O", "'", "Brien">>]>>
    ELSE IF sql = SqlInsertNamed
    THEN <<[t |-> "string", v |-> <<"u1">>],
           [t |-> "string", v |-> <<"O", "'", "Brien">>]>>
    ELSE <<>>

-----------------------------------------------------------------------------
(* pg_query.Parse: the PostgreSQL parser, by the first statement node it   *)
(* returns for each statement above: its kind and the relation it names.   *)

\* the scanner: white space and comments before the first token, in any order
RECURSIVE PgSkipLeading(_)
PgSkipLeading(s) ==
    IF s = <<>> THEN s
    ELSE IF Head(s) \in Spaces THEN PgSkipLeading(Tail(s))
    ELSE IF Head(s) = "--" /\ IndexOf(s, "\n") > 0
    THEN PgSkipLeading(Drop(s, IndexOf(s, "\n")))
    ELSE IF Head(s) = "/*" /\ IndexOf(s, "*/") > 0
    THEN PgSkipLeading(Drop(s, IndexOf(s, "*/")))
    ELSE s

\* the grammar's WITH clause of one common table expression: up to the
\* parenthesis that closes its first one
PgSkipWith(s) ==
    LET depth(i) == Cardinality({j \in 1..i : s[j] = "("})
                        - Cardinality({j \in 1..i : s[j] = ")"})
        closes == {i \in 1..Len(s) : s[i] = ")" /\ depth(i) = 0}
    IN  IF s # <<>> /\ Head(s) = "WITH" /\ closes # {}
        THEN PgSkipLeading(Drop(s, CHOOSE i \in closes : \A j \in closes : i <= j))
        ELSE s

RECURSIVE PgQueryParse(_)
PgQueryParse(sql) ==
    CASE sql \in {SqlInsert, SqlCommentedInsert, SqlInsertInnerComment,
                  SqlInsertNamed, SqlInsertDefault} ->
            [node |-> "InsertStmt", relname |-> <<"users">>]
      [] sql = SqlUpdate -> [node |-> "UpdateStmt", relname |-> <<"users">>]
      [] sql = SqlDeleteTemp -> [node |-> "DeleteStmt", relname |-> <<"temp_", "users">>]
      [] sql \in {SqlSelect, SqlSelectById} ->
            [node |-> "SelectStmt", relname |-> <<"users">>]
      [] sql = SqlCreate -> [node |-> "CreateStmt", relname |-> <<"t">>]
      [] OTHER ->
            LET rest == PgSkipWith(PgSkipLeading(sql))
            IN  IF rest # sql THEN PgQueryParse(rest)
                ELSE [node |-> "ParseError", relname |-> <<>>]

DMLNodes == {"InsertStmt", "UpdateStmt", "DeleteStmt"}

\* what the database does with a statement: it changes rows exactly when the
\* parsed statement is an INSERT, UPDATE or DELETE
Modifying == {sql \in Statements : PgQueryParse(sql).node \in DMLNodes}

Modifies(sql) == sql \in Modifying

-----------------------------------------------------------------------------
(* SQL classifier: builder.go, isDML and stripLeading.                     *)

\* the loop over leading "--" comments
RECURSIVE StripLineComments(_)
StripLineComments(s) ==
    IF HasPrefixAtom(s, "--")
    THEN LET idx == IndexOf(s, "\n")
         IN  IF idx > 0 THEN StripLineComments(TrimLeft(Drop(s, idx))) ELSE <<>>
    ELSE s

\* the loop over leading "/* */" comments
RECURSIVE StripBlockComments(_)
StripBlockComments(s) ==
    IF HasPrefixAtom(s, "/*")
    THEN LET idx == IndexOf(Tail(s), "*/")
         IN  IF idx > 0 THEN StripBlockComments(TrimLeft(Drop(s, idx + 1))) ELSE <<>>
    ELSE s

\* the number of whitespace atoms s has from position i on
RECURSIVE SpaceRun(_, _)
SpaceRun(s, i) ==
    IF i <= Len(s) /\ s[i] \in Spaces THEN 1 + SpaceRun(s, i + 1) ELSE 0

\* withCTE = (?is)^\s*WITH\s+[^;]+?\)\s* : the end of its match in s, 0 for no match.
\* The lazy [^;]+? stops at the first ")" that leaves it at least one character.
WithCTEEnd(s) ==
    LET w == SpaceRun(s, 1) + 1
        k == SpaceRun(s, w + 1)
        ends == {q \in 1..Len(s) :
                    /\ s[q] = ")"
                    /\ q >= w + 3
                    /\ \A j \in (w + 1)..(q - 1) : s[j] # ";"}
        q0 == CHOOSE q \in ends : \A r \in ends : q <= r
    IN  IF w <= Len(s) /\ Upper(s[w]) = "WITH" /\ k >= 1 /\ ends # {}
        THEN q0 + SpaceRun(s, q0 + 1)
        ELSE 0

stripLeading(sql) ==
    LET s1 == StripLineComments(TrimLeft(sql))
        s2 == StripBlockComments(s1)
    IN  IF s1 = <<>> \/ s2 = <<>> THEN <<>> ELSE Drop(s2, WithCTEEnd(s2))

\* quickDMLRegexp = (?i)^\s*(?:INSERT|UPDATE|DELETE)\b
quickDMLRegexp(s) ==
    LET t == TrimLeft(s)
    IN  t # <<>> /\ Upper(Head(t)) \in {"INSERT", "UPDATE", "DELETE"}

\* fault variant of isDML: the quick check alone, without the parse
isDMLQuickOnly(sql) ==
    LET normalized == stripLeading(sql)
    IN  normalized # <<>> /\ quickDMLRegexp(normalized)

isDML(sql) ==
    LET normalized == stripLeading(sql)
    IN  /\ normalized # <<>>
        /\ quickDMLRegexp(normalized)
        /\ PgQueryParse(sql).node # "ParseError"
        /\ PgQueryParse(sql).node \in DMLNodes

-----------------------------------------------------------------------------
(* Action/table extractor: table_action.go.                                *)

\* the backtick character
Backtick == "<backtick>"

OpenQuotes == {Backtick, "\"", "["}
NotInName == {Backtick, "\"", "]"} \cup Spaces

\* the capturing group of the three expressions, one or more characters that are
\* no backtick, double quote, closing bracket or whitespace: the longest run of
\* such characters of s from position i on
RECURSIVE NameRun(_, _)
NameRun(s, i) ==
    IF i <= Len(s) /\ s[i] \notin NotInName THEN <<s[i]>> \o NameRun(s, i + 1) ELSE <<>>

\* an optional opening quote and then the group, at position q: the captured
\* group, <<>> for no match
QuotedName(s, q) ==
    IF q <= Len(s) /\ s[q] \in OpenQuotes /\ NameRun(s, q + 1) # <<>>
    THEN NameRun(s, q + 1)
    ELSE NameRun(s, q)

\* \bVERB\s+(KEYWORD\s+)?name matched at position i: the captured group, <<>> for
\* no match; words is <<"INSERT", "INTO">>, <<"UPDATE">> or <<"DELETE", "FROM">>
MatchAt(s, i, words) ==
    LET k1 == SpaceRun(s, i + 1)
        j == i + 1 + k1
        p == IF Len(words) = 2 THEN j + 1 ELSE i + 1
        k2 == SpaceRun(s, p)
    IN  IF /\ Upper(s[i]) = words[1]
           /\ Len(words) = 2 => (k1 >= 1 /\ j <= Len(s) /\ Upper(s[j]) = words[2])
           /\ k2 >= 1
        THEN QuotedName(s, p + k2)
        ELSE <<>>

\* FindStringSubmatch: the group of the leftmost match, <<>> when nothing matches
FindStringSubmatch(s, words) ==
    LET at == {i \in 1..Len(s) : MatchAt(s, i, words) # <<>>}
    IN  IF at = {} THEN <<>>
        ELSE MatchAt(s, CHOOSE i \in at : \A j \in at : i <= j, words)

insertRegexp(s) == FindStringSubmatch(s, <<"INSERT", "INTO">>)
updateRegexp(s) == FindStringSubmatch(s, <<"UPDATE">>)
deleteRegexp(s) == FindStringSubmatch(s, <<"DELETE", "FROM">>)

NoError == <<>>

parseTableAction(sql) ==
    IF insertRegexp(sql) # <<>>
    THEN [table |-> insertRegexp(sql), action |-> "insert", err |-> NoError]
    ELSE IF updateRegexp(sql) # <<>>
    THEN [table |-> updateRegexp(sql), action |-> "update", err |-> NoError]
    ELSE IF deleteRegexp(sql) # <<>>
    THEN [table |-> deleteRegexp(sql), action |-> "delete", err |-> NoError]
    ELSE [table |-> <<>>, action |-> "", err |-> <<"could not parse action from SQL">>]

-----------------------------------------------------------------------------
(* Literal interpolation: internal/formatter and internal/postgres.        *)

\* fault variant of escapeString: the text as it is
escapeStringRaw(v) == v

\* strings.ReplaceAll: every single quote is doubled
RECURSIVE escapeString(_)
escapeString(v) ==
    IF v = <<>> THEN <<>>
    ELSE (IF Head(v) = "'" THEN <<"'", "'">> ELSE <<Head(v)>>) \o escapeString(Tail(v))

\* an argument is [t |-> its Go type, v |-> its text]; []byte and time.Time
\* arguments are not among the inputs
SQLValue(arg) ==
    CASE arg.t = "nil" -> <<"NULL">>
      [] arg.t \in {"string", "Stringer"} -> <<"'">> \o escapeString(arg.v) \o <<"'">>
      [] OTHER -> <<"'">> \o arg.v \o <<"'">>

\* dollarPlaceholderRegexp = \$\d+
Placeholders == {"$1", "$2", "$3"}

\* the loop over the matches: i counts the placeholders seen so far
RECURSIVE InterpolateFrom(_, _, _)
InterpolateFrom(query, args, i) ==
    IF query = <<>> THEN <<>>
    ELSE IF Head(query) \in Placeholders
    THEN (IF i <= Len(args) THEN SQLValue(args[i]) ELSE <<"?">>)
             \o InterpolateFrom(Tail(query), args, i + 1)
    ELSE <<Head(query)>> \o InterpolateFrom(Tail(query), args, i)

\* fault variant of InterpolateSQL: the statement as it is
InterpolateSQLNone(query, args) == query

InterpolateSQL(query, args) ==
    IF (\A i \in 1..Len(query) : query[i] \notin Placeholders) \/ Len(args) = 0
    THEN query
    ELSE InterpolateFrom(query, args, 1)

-----------------------------------------------------------------------------
(* Table filters: filter.go.  A filter is [kind, patterns]; a pattern is   *)
(* an atom sequence, "*" standing for any run of atoms.                    *)

\* filepath.Match
RECURSIVE Match(_, _)
Match(pattern, name) ==
    IF pattern = <<>> THEN name = <<>>
    ELSE IF Head(pattern) = "*"
    THEN \E n \in 0..Len(name) : Match(Tail(pattern), Drop(name, n))
    ELSE name # <<>> /\ Head(name) = Head(pattern) /\ Match(Tail(pattern), Tail(name))

\* fault variant of the filters: a prefix or pattern found anywhere in the name
FilterShouldLogUnanchored(filter, tableName) ==
    LET tails == {Drop(tableName, n) : n \in 0..Len(tableName)}
    IN  CASE filter.kind = "ExcludePattern" ->
                ~ \E p \in filter.patterns, t \in tails : Match(p, t)
          [] filter.kind = "ExcludePrefix" ->
                ~ \E p \in filter.patterns, t \in tails : HasPrefix(t, p)
          [] filter.kind = "IncludePattern" ->
                \E p \in filter.patterns, t \in tails : Match(p, t)

FilterShouldLog(filter, tableName) ==
    CASE filter.kind = "ExcludePattern" ->
            ~ \E p \in filter.patterns : Match(p, tableName)
      [] filter.kind = "ExcludePrefix" ->
            ~ \E p \in filter.patterns : HasPrefix(tableName, p)
      [] filter.kind = "IncludePattern" ->
            \E p \in filter.patterns : Match(p, tableName)

\* fault variant of TableFilters.ShouldLog: true as soon as one member accepts
RECURSIVE ShouldLogAny(_, _)
ShouldLogAny(filters, tableName) ==
    IF filters = <<>> THEN TRUE
    ELSE IF FilterShouldLog(Head(filters), tableName) THEN TRUE
    ELSE Len(filters) > 1 /\ ShouldLogAny(Tail(filters), tableName)

\* TableFilters.ShouldLog: false at the first member that rejects, true when the
\* loop ends
RECURSIVE ShouldLog(_, _)
ShouldLog(filters, tableName) ==
    IF filters = <<>> THEN TRUE
    ELSE IF ~FilterShouldLog(Head(filters), tableName) THEN FALSE
    ELSE ShouldLog(Tail(filters), tableName)

\* databaseModificationBuilder.isFiltered
isFiltered(filters, tableName) == ShouldLog(filters, tableName)

-----------------------------------------------------------------------------
(* Contexts and the actor identifiers they carry.                          *)

\* a context without an identifier carries "" for it
ValidCtx == [operatorID |-> "op-1", executionID |-> "ex-1"]
NoOperatorCtx == [operatorID |-> "", executionID |-> "ex-1"]
NoExecutionCtx == [operatorID |-> "op-1", executionID |-> ""]

Contexts == {ValidCtx, NoOperatorCtx, NoExecutionCtx}

\* the ExecContext calls of the model: every issued statement under a valid
\* context, and under the contexts that lack an identifier a statement that needs
\* one and a statement that needs none
Requests ==
    {[ctx |-> ValidCtx, sql |-> sql] : sql \in Issued}
        \cup {[ctx |-> ctx, sql |-> SqlInsert] : ctx \in Contexts}
        \cup {[ctx |-> NoOperatorCtx, sql |-> SqlSelect]}

NoCtx == [operatorID |-> "", executionID |-> ""]

\* retrieval fails when the identifier is unset or empty
GetOperatorID(ctx) ==
    IF ctx.operatorID = ""
    THEN [id |-> "", err |-> <<"operator ID not found in context">>]
    ELSE [id |-> ctx.operatorID, err |-> NoError]

GetExecutionID(ctx) ==
    IF ctx.executionID = ""
    THEN [id |-> "", err |-> <<"execution ID not found in context">>]
    ELSE [id |-> ctx.executionID, err |-> NoError]

\* the operator extractor of the README's 'Custom Context Extractors': the value
\* under the caller's own key current_user_id, whatever string it is, and an
\* error only when the key is unset
customOperatorExtractor(ctx) ==
    IF "current_user_id" \in DOMAIN ctx
    THEN [id |-> ctx.current_user_id, err |-> NoError]
    ELSE [id |-> "", err |-> <<"user ID not found in context">>]

\* OperatorIDExtractor.ExtractOperatorID: the extractor fillDefaults installs
\* calls GetOperatorID, one given with WithOperatorIDExtractor is called as is
ExtractOperatorID(extractor, ctx) ==
    IF extractor = "default" THEN GetOperatorID(ctx) ELSE customOperatorExtractor(ctx)

-----------------------------------------------------------------------------
(* Modification builder: builder.go, build.                                *)

\* the zero DatabaseModification, standing for the nil pointer
NoMod ==
    [ID |-> 0, OperatorID |-> "", ExecutionID |-> "", TableName |-> <<>>,
     Action |-> "", SQL |-> <<>>, ModifiedAt |-> 0]

\* fmt.Errorf("msg: %w", err)
Wrap(msg, err) == <<msg>> \o err

\* isDML, parseTableAction and InterpolateSQL of each statement of the model
Analysed ==
    [sql \in Statements |->
        [dml |-> isDML(sql), ta |-> parseTableAction(sql),
         fullSQL |-> InterpolateSQL(sql, ArgsOf(sql))]]

\* fault variant of build: the identifiers of one fixed context, not the caller's
buildAsFirstCaller(filters, ctx, sql, args, now) ==
    LET ta == analysed[sql].ta
        op == ExtractOperatorID(operatorIDExtractor, ValidCtx)
        ex == GetExecutionID(ValidCtx)
    IN  IF ~analysed[sql].dml THEN [built |-> FALSE, mod |-> NoMod, err |-> NoError]
        ELSE IF ta.err # NoError
        THEN [built |-> FALSE, mod |-> NoMod,
              err |-> Wrap("failed to parse action and table from SQL", ta.err)]
        ELSE IF op.err # NoError
        THEN [built |-> FALSE, mod |-> NoMod,
              err |-> Wrap("failed to extract operator ID", op.err)]
        ELSE IF ex.err # NoError
        THEN [built |-> FALSE, mod |-> NoMod,
              err |-> Wrap("failed to extract execution ID", ex.err)]
        ELSE [built |-> TRUE,
              mod |-> [ID |-> now, OperatorID |-> op.id, ExecutionID |-> ex.id,
                       TableName |-> ta.table, Action |-> ta.action,
                       SQL |-> analysed[sql].fullSQL, ModifiedAt |-> now],
              err |-> NoError]

\* now is the value uuid.New and time.Now return during this call; args is
\* ArgsOf(sql); the three functions of the statement are read from analysed
build(filters, ctx, sql, args, now) ==
    LET ta == analysed[sql].ta
        op == ExtractOperatorID(operatorIDExtractor, ctx)
        ex == GetExecutionID(ctx)
    IN  IF ~analysed[sql].dml THEN [built |-> FALSE, mod |-> NoMod, err |-> NoError]
        ELSE IF ta.err # NoError
        THEN [built |-> FALSE, mod |-> NoMod,
              err |-> Wrap("failed to parse action and table from SQL", ta.err)]
        ELSE IF op.err # NoError
        THEN [built |-> FALSE, mod |-> NoMod,
              err |-> Wrap("failed to extract operator ID", op.err)]
        ELSE IF ex.err # NoError
        THEN [built |-> FALSE, mod |-> NoMod,
              err |-> Wrap("failed to extract execution ID", ex.err)]
        ELSE [built |-> TRUE,
              mod |-> [ID |-> now, OperatorID |-> op.id, ExecutionID |-> ex.id,
                       TableName |-> ta.table, Action |-> ta.action,
                       SQL |-> analysed[sql].fullSQL, ModifiedAt |-> now],
              err |-> NoError]

-----------------------------------------------------------------------------
(* Calls on the wrapped driver.  A call is recorded with the wrapper that  *)
(* makes it (by), the wrapped object it is made on (on), what it carries   *)
(* and the error the driver returned.                                      *)

\* the INSERT INTO database_modifications statement of logModification and log
AuditInsertSQL == <<"INSERT", " ", "INTO", " ", "database_modifications">>

\* fault variant of execCtx.ExecContext(ctx, query, args): the arguments dropped
ExecCallNoArgs(by, on, sql, err) ==
    [fn |-> "ExecContext", by |-> by, on |-> on, sql |-> sql, args |-> <<>>,
     recs |-> <<>>, ro |-> FALSE, err |-> err]

\* execCtx.ExecContext(ctx, query, args), args being the statement's arguments
ExecCall(by, on, sql, err) ==
    [fn |-> "ExecContext", by |-> by, on |-> on, sql |-> sql, args |-> ArgsOf(sql),
     recs |-> <<>>, ro |-> FALSE, err |-> err]

\* the arguments of the audit insert are the fields of recs
InsertCall(by, on, recs, err) ==
    [fn |-> "ExecContext", by |-> by, on |-> on, sql |-> AuditInsertSQL,
     args |-> <<>>, recs |-> recs, ro |-> FALSE, err |-> err]

TxCall(fn, by, on, ro, err) ==
    [fn |-> fn, by |-> by, on |-> on, sql |-> <<>>, args |-> <<>>, recs |-> <<>>,
     ro |-> ro, err |-> err]

\* fault variant of queryCtx.QueryContext(ctx, query, args): the arguments dropped
QueryCallNoArgs(by, on, sql, err) ==
    [fn |-> "QueryContext", by |-> by, on |-> on, sql |-> sql, args |-> <<>>,
     recs |-> <<>>, ro |-> FALSE, err |-> err]

\* queryCtx.QueryContext(ctx, query, args)
QueryCall(by, on, sql, err) ==
    [fn |-> "QueryContext", by |-> by, on |-> on, sql |-> sql, args |-> ArgsOf(sql),
     recs |-> <<>>, ro |-> FALSE, err |-> err]

\* prepareCtx.PrepareContext(ctx, query) and the promoted Conn.Prepare(query)
PrepareCall(by, on, sql, err) ==
    [fn |-> "Prepare", by |-> by, on |-> on, sql |-> <<>>, args |-> <<>>,
     recs |-> <<>>, ro |-> FALSE, err |-> err]

\* the caller executing the driver.Stmt a prepare call returned: a call on the
\* wrapped driver's statement, which no wrapper stands in front of
StmtExecCall(sql, err) ==
    [fn |-> "Stmt.ExecContext", by |-> "caller", on |-> "stmt", sql |-> sql,
     args |-> ArgsOf(sql), recs |-> <<>>, ro |-> FALSE, err |-> err]

\* the calls that run a statement on the database
RunsStatement == {"ExecContext", "QueryContext", "Stmt.ExecContext"}

\* tx.Tx.Rollback() and tx.Tx.Commit()
RollbackCall(err) == TxCall("Rollback", "loggingTx", "tx", FALSE, err)
CommitCall(err) == TxCall("Commit", "loggingTx", "tx", FALSE, err)

IsAuditInsert(c) == c.fn = "ExecContext" /\ c.sql = AuditInsertSQL

\* the errors the wrapped driver can return from a call
DriverErrors == {NoError, <<"driver error">>}

\* the optional interfaces of the wrapped connection and transaction:
\* driver.ExecerContext and driver.ConnBeginTx on the connection,
\* driver.ExecerContext on the transaction
AllCaps ==
    [connExec |-> TRUE, connBeginTx |-> TRUE, txExec |-> TRUE, connQuery |-> TRUE,
     connPrepare |-> TRUE]

\* the README's NewExcludePrefixFilter("temp_", "log_")
ExcludeTemp == [kind |-> "ExcludePrefix", patterns |-> {<<"temp_">>, <<"log_">>}]

\* the drivers of the model: the default one, and the ones that differ from it
\* by one option or by one interface the wrapped driver lacks
Configs ==
    {[readOnly |-> FALSE, filters |-> <<>>, caps |-> AllCaps],
     [readOnly |-> FALSE, filters |-> <<ExcludeTemp>>, caps |-> AllCaps],
     [readOnly |-> TRUE, filters |-> <<>>, caps |-> AllCaps],
     [readOnly |-> FALSE, filters |-> <<>>, caps |-> [AllCaps EXCEPT !.txExec = FALSE]],
     [readOnly |-> FALSE, filters |-> <<>>, caps |-> [AllCaps EXCEPT !.connBeginTx = FALSE]],
     [readOnly |-> FALSE, filters |-> <<>>, caps |-> [AllCaps EXCEPT !.connExec = FALSE]]}

-----------------------------------------------------------------------------
(* The database behind the wrapped driver.                                 *)

\* the effect of one successful call; a failed ExecContext or BeginTx has none,
\* and the transaction is over after Commit and Rollback whatever they return
ApplyCall(d, c, now) ==
    LET tx == IF d.active THEN d.txId ELSE 0
        rows == {[rec |-> c.recs[i], tx |-> tx, by |-> c.by] : i \in 1..Len(c.recs)}
        data == IF Modifies(c.sql)
                THEN {[id |-> now, sql |-> c.sql, tx |-> tx, by |-> c.by]}
                ELSE {}
    IN  CASE c.fn = "ExecContext" /\ c.err = NoError /\ IsAuditInsert(c) ->
                IF d.active THEN [d EXCEPT !.pendAudit = @ \cup rows]
                ELSE [d EXCEPT !.audit = @ \cup rows]
          [] c.fn \in RunsStatement /\ c.err = NoError /\ ~IsAuditInsert(c) ->
                IF d.active THEN [d EXCEPT !.pendData = @ \cup data]
                ELSE [d EXCEPT !.data = @ \cup data]
          [] c.fn = "BeginTx" /\ c.err = NoError ->
                [d EXCEPT !.active = TRUE, !.txId = @ + 1]
          [] c.fn = "Commit" /\ c.err = NoError ->
                [d EXCEPT !.active = FALSE,
                           !.audit = @ \cup d.pendAudit, !.data = @ \cup d.pendData,
                           !.pendAudit = {}, !.pendData = {}]
          [] c.fn \in {"Commit", "Rollback"} /\ (c.fn = "Commit" => c.err # NoError) ->
                [d EXCEPT !.active = FALSE, !.pendAudit = {}, !.pendData = {}]
          [] OTHER -> d

RECURSIVE ApplyCalls(_, _, _)
ApplyCalls(d, calls, now) ==
    IF calls = <<>> THEN d
    ELSE ApplyCalls(ApplyCall(d, Head(calls), now), Tail(calls), now)

-----------------------------------------------------------------------------
(* Connection decorator: conn.go, Conn.                                    *)

\* what a handler did: the driver calls in the order made, the records handed to
\* the secondary logger, the error returned, whether build returned a record,
\* and the records appended to the buffer
Result(calls, logs, err, built, added) ==
    [calls |-> calls, logs |-> logs, err |-> err, built |-> built, added |-> added]

\* fault variant of logModification: a failed insert is tried a second time
logModificationRetrying(c, mod, insErr) ==
    IF ~c.caps.connExec
    THEN Result(<<>>, <<>>,
                <<"connection does not support ExecContext for direct logging">>,
                TRUE, <<>>)
    ELSE IF insErr # NoError
    THEN Result(<<InsertCall("Conn", "conn", <<mod>>, insErr),
                  InsertCall("Conn", "conn", <<mod>>, insErr)>>,
                <<mod>>, insErr, TRUE, <<>>)
    ELSE Result(<<InsertCall("Conn", "conn", <<mod>>, NoError)>>, <<>>, NoError, TRUE,
                <<>>)

\* c is the receiver: [caps, readOnly, filters]
logModification(c, mod, insErr) ==
    IF ~c.caps.connExec
    THEN Result(<<>>, <<>>,
                <<"connection does not support ExecContext for direct logging">>,
                TRUE, <<>>)
    ELSE Result(<<InsertCall("Conn", "conn", <<mod>>, insErr)>>,
                IF insErr # NoError THEN <<mod>> ELSE <<>>, insErr, TRUE, <<>>)

\* fault variant of Conn.ExecContext: the statement first, its audit row second
ConnExecContextExecFirst(c, ctx, sql, now, insErr, execErr) ==
    LET b == build(c.filters, ctx, sql, ArgsOf(sql), now)
        lg == logModification(c, b.mod, insErr)
        ex == ExecCall("Conn", "conn", sql, execErr)
    IN  IF ~c.caps.connExec
        THEN Result(<<>>, <<>>, <<"connection does not support ExecContext">>, FALSE, <<>>)
        ELSE IF c.readOnly \/ execErr # NoError
        THEN Result(<<ex>>, <<>>, execErr, FALSE, <<>>)
        ELSE IF b.err # NoError
        THEN Result(<<ex>>, <<>>, Wrap("failed to build database modification", b.err),
                    FALSE, <<>>)
        ELSE IF b.built
        THEN Result(<<ex>> \o lg.calls, lg.logs,
                    IF lg.err # NoError
                    THEN Wrap("failed to log database modification", lg.err)
                    ELSE NoError,
                    TRUE, <<>>)
        ELSE Result(<<ex>>, <<>>, NoError, FALSE, <<>>)

\* fault variant of Conn.ExecContext: the record left for a Commit to write
ConnExecContextDeferring(c, ctx, sql, now, insErr, execErr) ==
    LET b == build(c.filters, ctx, sql, ArgsOf(sql), now)
    IN  IF ~c.caps.connExec
        THEN Result(<<>>, <<>>, <<"connection does not support ExecContext">>, FALSE, <<>>)
        ELSE IF c.readOnly
        THEN Result(<<ExecCall("Conn", "conn", sql, execErr)>>, <<>>, execErr, FALSE,
                    <<>>)
        ELSE IF b.err # NoError
        THEN Result(<<>>, <<>>, Wrap("failed to build database modification", b.err),
                    FALSE, <<>>)
        ELSE Result(<<ExecCall("Conn", "conn", sql, execErr)>>, <<>>, execErr, b.built,
                    IF execErr = NoError /\ b.built THEN <<b.mod>> ELSE <<>>)

ConnExecContext(c, ctx, sql, now, insErr, execErr) ==
    LET b == build(c.filters, ctx, sql, ArgsOf(sql), now)
        lg == logModification(c, b.mod, insErr)
    IN  IF ~c.caps.connExec
        THEN Result(<<>>, <<>>, <<"connection does not support ExecContext">>, FALSE, <<>>)
        ELSE IF c.readOnly
        THEN Result(<<ExecCall("Conn", "conn", sql, execErr)>>, <<>>, execErr, FALSE,
                    <<>>)
        ELSE IF b.err # NoError
        THEN Result(<<>>, <<>>, Wrap("failed to build database modification", b.err),
                    FALSE, <<>>)
        ELSE IF b.built /\ lg.err # NoError
        THEN Result(lg.calls, lg.logs, Wrap("failed to log database modification", lg.err),
                    TRUE, <<>>)
        ELSE Result((IF b.built THEN lg.calls ELSE <<>>)
                        \o <<ExecCall("Conn", "conn", sql, execErr)>>,
                    <<>>, execErr, b.built, <<>>)

\* fault variant of Conn.BeginTx: begins the transaction without ReadOnly
ConnBeginTxNotReadOnly(c, beginErr) ==
    IF ~c.caps.connBeginTx
    THEN Result(<<>>, <<>>, <<"connection does not support BeginTx">>, FALSE, <<>>)
    ELSE Result(<<TxCall("BeginTx", "Conn", "conn", FALSE, beginErr)>>, <<>>,
                beginErr, FALSE, <<>>)

ConnBeginTx(c, beginErr) ==
    IF ~c.caps.connBeginTx
    THEN Result(<<>>, <<>>, <<"connection does not support BeginTx">>, FALSE, <<>>)
    ELSE Result(<<TxCall("BeginTx", "Conn", "conn", c.readOnly, beginErr)>>, <<>>,
                beginErr, FALSE, <<>>)

\* Conn.BeginTx with the caller's driver.TxOptions: opts.ReadOnly = c.readOnly,
\* then conn.BeginTx(ctx, opts)
ConnBeginTxOpts(c, opts, beginErr) ==
    LET passed == [opts EXCEPT !.ReadOnly = c.readOnly]
    IN  IF ~c.caps.connBeginTx
        THEN Result(<<>>, <<>>, <<"connection does not support BeginTx">>, FALSE, <<>>)
        ELSE Result(<<TxCall("BeginTx", "Conn", "conn", passed.ReadOnly, beginErr)>>,
                    <<>>, beginErr, FALSE, <<>>)

\* Conn.Prepare: Conn embeds driver.Conn and defines no Prepare, Query or
\* PrepareContext of its own, so the wrapped connection's Prepare is promoted
ConnPrepare(c, sql, prepErr) ==
    Result(<<PrepareCall("Conn", "conn", sql, prepErr)>>, <<>>, prepErr, FALSE, <<>>)

-----------------------------------------------------------------------------
(* Transactional buffer and commit gate: conn.go, txConn and loggingTx.    *)

txConnQueryContext(c, ctx, sql, queryErr) ==
    IF ~c.caps.connQuery
    THEN Result(<<>>, <<>>, <<"connection does not support QueryContext">>, FALSE, <<>>)
    ELSE Result(<<QueryCall("txConn", "conn", sql, queryErr)>>, <<>>, queryErr, FALSE,
                <<>>)

txConnPrepareContext(c, ctx, sql, prepErr) ==
    IF ~c.caps.connPrepare
    THEN Result(<<>>, <<>>, <<"connection does not support PrepareContext">>, FALSE,
                <<>>)
    ELSE Result(<<PrepareCall("txConn", "conn", sql, prepErr)>>, <<>>, prepErr, FALSE,
                <<>>)

\* fault variant of txConn.ExecContext: the statement first, its record second
txConnExecContextExecFirst(c, ctx, sql, now, execErr) ==
    LET b == build(c.filters, ctx, sql, ArgsOf(sql), now)
        ex == ExecCall("txConn", "conn", sql, execErr)
    IN  IF ~c.caps.connExec
        THEN Result(<<>>, <<>>, <<"connection does not support ExecContext">>, FALSE, <<>>)
        ELSE IF c.readOnly \/ execErr # NoError
        THEN Result(<<ex>>, <<>>, execErr, FALSE, <<>>)
        ELSE IF b.err # NoError
        THEN Result(<<ex>>, <<>>, Wrap("failed to build database modification", b.err),
                    FALSE, <<>>)
        ELSE Result(<<ex>>, <<>>, NoError, b.built,
                    IF b.built THEN <<b.mod>> ELSE <<>>)

\* fault variant of txConn.ExecContext: appends whatever build returned, without
\* the nil check
txConnExecContextNoNilCheck(c, ctx, sql, now, execErr) ==
    LET b == build(c.filters, ctx, sql, ArgsOf(sql), now)
    IN  IF ~c.caps.connExec
        THEN Result(<<>>, <<>>, <<"connection does not support ExecContext">>, FALSE, <<>>)
        ELSE IF c.readOnly
        THEN Result(<<ExecCall("txConn", "conn", sql, execErr)>>, <<>>, execErr, FALSE,
                    <<>>)
        ELSE IF b.err # NoError
        THEN Result(<<>>, <<>>, Wrap("failed to build database modification", b.err),
                    FALSE, <<>>)
        ELSE Result(<<ExecCall("txConn", "conn", sql, execErr)>>, <<>>, execErr, b.built,
                    IF execErr = NoError THEN <<b.mod>> ELSE <<>>)

\* fault variant of txConn.ExecContext: appends the record whether or not the
\* statement succeeded
txConnExecContextAppendOnFailure(c, ctx, sql, now, execErr) ==
    LET b == build(c.filters, ctx, sql, ArgsOf(sql), now)
    IN  IF ~c.caps.connExec
        THEN Result(<<>>, <<>>, <<"connection does not support ExecContext">>, FALSE, <<>>)
        ELSE IF c.readOnly
        THEN Result(<<ExecCall("txConn", "conn", sql, execErr)>>, <<>>, execErr, FALSE,
                    <<>>)
        ELSE IF b.err # NoError
        THEN Result(<<>>, <<>>, Wrap("failed to build database modification", b.err),
                    FALSE, <<>>)
        ELSE Result(<<ExecCall("txConn", "conn", sql, execErr)>>, <<>>, execErr, b.built,
                    IF b.built THEN <<b.mod>> ELSE <<>>)

\* fault variant of txConn.ExecContext: no test of the connection's capability
txConnExecContextNoCapCheck(c, ctx, sql, now, execErr) ==
    LET b == build(c.filters, ctx, sql, ArgsOf(sql), now)
    IN  IF c.readOnly
        THEN Result(<<ExecCall("txConn", "conn", sql, execErr)>>, <<>>, execErr, FALSE,
                    <<>>)
        ELSE IF b.err # NoError
        THEN Result(<<>>, <<>>, Wrap("failed to build database modification", b.err),
                    FALSE, <<>>)
        ELSE Result(<<ExecCall("txConn", "conn", sql, execErr)>>, <<>>, execErr, b.built,
                    IF execErr = NoError /\ b.built THEN <<b.mod>> ELSE <<>>)

txConnExecContext(c, ctx, sql, now, execErr) ==
    LET b == build(c.filters, ctx, sql, ArgsOf(sql), now)
    IN  IF ~c.caps.connExec
        THEN Result(<<>>, <<>>, <<"connection does not support ExecContext">>, FALSE, <<>>)
        ELSE IF c.readOnly
        THEN Result(<<ExecCall("txConn", "conn", sql, execErr)>>, <<>>, execErr, FALSE,
                    <<>>)
        ELSE IF b.err # NoError
        THEN Result(<<>>, <<>>, Wrap("failed to build database modification", b.err),
                    FALSE, <<>>)
        ELSE Result(<<ExecCall("txConn", "conn", sql, execErr)>>, <<>>, execErr, b.built,
                    IF execErr = NoError /\ b.built THEN <<b.mod>> ELSE <<>>)

\* the columns of database_modifications in the order of the insert, by the
\* field of DatabaseModification bound to each
Columns ==
    <<"ID", "OperatorID", "ExecutionID", "TableName", "Action", "SQL", "ModifiedAt">>

\* "$%d"
Dollar(n) == "$" \o ToString(n)

\* strings.Join(elems, ", ") of atom sequences
RECURSIVE Join(_)
Join(elems) ==
    IF elems = <<>> THEN <<>>
    ELSE IF Len(elems) = 1 THEN Head(elems)
    ELSE Head(elems) \o <<",", " ">> \o Join(Tail(elems))

\* fault variant of valuesClause: every tuple numbered from 1
valuesClauseFromOne(i) == <<"(">> \o Join([j \in 1..7 |-> <<Dollar(j)>>]) \o <<")">>

\* valuesClauses[i], i counted from 0: ($b+1, $b+2, ..., $b+7) with b = i * 7
valuesClause(i) ==
    LET baseIndex == i * 7
    IN  <<"(">> \o Join([j \in 1..7 |-> <<Dollar(baseIndex + j)>>]) \o <<")">>

\* the query of loggingTx.log
batchQuery(modifications) ==
    <<"INSERT", " ", "INTO", " ", "database_modifications", " ", "(">>
        \o Join(<< <<"id">>, <<"operator_id">>, <<"execution_id">>, <<"table_name">>,
                   <<"action">>, <<"sql">>, <<"modified_at">> >>)
        \o <<")", " ", "VALUES", " ">>
        \o Join([i \in 1..Len(modifications) |-> valuesClause(i - 1)])

\* the args of loggingTx.log: seven driver.NamedValue for each record
batchArgs(modifications) ==
    [k \in 1..(7 * Len(modifications)) |->
        LET i == (k - 1) \div 7
            j == ((k - 1) % 7) + 1
        IN  [Ordinal |-> i * 7 + j, Value |-> modifications[i + 1][Columns[j]]]]

\* fault variant of log: one insert per record instead of one batch
logEach(c, modifications, insErr) ==
    IF Len(modifications) = 0 THEN Result(<<>>, <<>>, NoError, FALSE, <<>>)
    ELSE Result([i \in 1..Len(modifications) |->
                    InsertCall("loggingTx", "tx", <<modifications[i]>>, insErr)],
                IF insErr = NoError THEN modifications ELSE <<>>,
                IF insErr = NoError THEN NoError
                ELSE Wrap("failed to batch insert database modifications", insErr),
                FALSE, <<>>)

\* loggingTx.log
log(c, modifications, insErr) ==
    IF Len(modifications) = 0 THEN Result(<<>>, <<>>, NoError, FALSE, <<>>)
    ELSE IF ~c.caps.txExec
    THEN Result(<<>>, <<>>, <<"transaction does not support ExecContext for logging">>,
                FALSE, <<>>)
    ELSE IF insErr # NoError
    THEN Result(<<InsertCall("loggingTx", "tx", modifications, insErr)>>, <<>>,
                Wrap("failed to batch insert database modifications", insErr),
                FALSE, <<>>)
    ELSE Result(<<InsertCall("loggingTx", "tx", modifications, NoError)>>,
                modifications, NoError, FALSE, <<>>)

\* ctx.Err() of the governing context
CtxErr(ctx) == IF ctx = "canceled" THEN <<"context canceled">> ELSE NoError

\* fault variant of Commit: commits although the flush failed
CommitIgnoringFlushError(c, modifications, ctx, insErr, rollbackErr, commitErr) ==
    LET lg == log(c, modifications, insErr)
    IN  IF CtxErr(ctx) # NoError
        THEN Result(lg.calls \o <<RollbackCall(rollbackErr)>>, lg.logs,
                    CtxErr(ctx), FALSE, <<>>)
        ELSE Result(lg.calls \o <<CommitCall(commitErr)>>, lg.logs,
                    commitErr, FALSE, <<>>)

\* fault variant of Commit: the error of the flush returned as it is
CommitUnwrapped(c, modifications, ctx, insErr, rollbackErr, commitErr) ==
    LET lg == log(c, modifications, insErr)
    IN  IF Len(modifications) > 0 /\ lg.err # NoError
        THEN Result(lg.calls \o <<RollbackCall(rollbackErr)>>, lg.logs, Drop(lg.err, 1),
                    FALSE, <<>>)
        ELSE IF CtxErr(ctx) # NoError
        THEN Result(lg.calls \o <<RollbackCall(rollbackErr)>>, lg.logs,
                    CtxErr(ctx), FALSE, <<>>)
        ELSE Result(lg.calls \o <<CommitCall(commitErr)>>, lg.logs,
                    commitErr, FALSE, <<>>)

\* loggingTx.Commit; modifications is what buf.drain() returned
Commit(c, modifications, ctx, insErr, rollbackErr, commitErr) ==
    LET lg == log(c, modifications, insErr)
    IN  IF Len(modifications) > 0 /\ lg.err # NoError
        THEN Result(lg.calls \o <<RollbackCall(rollbackErr)>>, lg.logs,
                    IF rollbackErr # NoError
                    THEN Wrap("failed to rollback after audriver logging error", lg.err)
                    ELSE Wrap("failed to flush logs in transaction", lg.err),
                    FALSE, <<>>)
        ELSE IF CtxErr(ctx) # NoError
        THEN Result(lg.calls \o <<RollbackCall(rollbackErr)>>, lg.logs,
                    CtxErr(ctx), FALSE, <<>>)
        ELSE Result(lg.calls \o <<CommitCall(commitErr)>>, lg.logs,
                    commitErr, FALSE, <<>>)

\* fault variant of Rollback: flushes the drained records before rolling back
RollbackFlushing(c, modifications, rollbackErr) ==
    Result(log(c, modifications, NoError).calls \o <<RollbackCall(rollbackErr)>>,
           <<>>, rollbackErr, FALSE, <<>>)

\* loggingTx.Rollback; modifications is what buf.drain() returned, dropped
Rollback(c, modifications, rollbackErr) ==
    Result(<<RollbackCall(rollbackErr)>>, <<>>, rollbackErr, FALSE, <<>>)

\* fault variant of drain: returns the records and keeps them
drainKeeping(b) == [ms |-> b, left |-> b]

\* buffer.drain: the records it returns and what it leaves in the buffer
drain(b) == [ms |-> b, left |-> <<>>]

-----------------------------------------------------------------------------
(* The state machine.                                                      *)

Receiver == [caps |-> caps, readOnly |-> readOnly, filters |-> tableFilters]

\* before any call of a function on its own
NotAsked == [op |-> "none", tableName |-> <<>>, result |-> TRUE]

NoDB == [active |-> FALSE, txId |-> 0, pendAudit |-> {}, pendData |-> {},
         audit |-> {}, data |-> {}]

\* drained is what buf.drain() returned to the handler
Called(op, ctx, sql, drained, r) ==
    [op |-> op, ctx |-> ctx, sql |-> sql, drained |-> drained, calls |-> r.calls,
     logs |-> r.logs, err |-> r.err, built |-> r.built]

Init ==
    /\ \E cfg \in Configs :
          /\ readOnly = cfg.readOnly
          /\ tableFilters = cfg.filters
          /\ caps = cfg.caps
    /\ operatorIDExtractor = "default"
    /\ callers = <<>>
    /\ asked = NotAsked
    /\ analysed = Analysed
    /\ txState = "none"
    /\ txCtx = "none"
    /\ buf = <<>>
    /\ db = NoDB
    /\ clock = 0
    /\ last = Called("none", NoCtx, <<>>, <<>>, Result(<<>>, <<>>, NoError, FALSE, <<>>))

\* Conn.ExecContext: a statement outside the loggingTx
DoConnExec ==
    /\ clock < MaxOps
    /\ \E rq \in Requests, insErr \in DriverErrors, execErr \in DriverErrors :
          LET r == ConnExecContext(Receiver, rq.ctx, rq.sql, clock + 1, insErr, execErr)
          IN  /\ db' = ApplyCalls(db, r.calls, clock + 1)
              /\ last' = Called("Conn.ExecContext", rq.ctx, rq.sql, <<>>, r)
    /\ clock' = clock + 1
    /\ UNCHANGED <<config, callers, asked, txState, txCtx, buf>>

\* Conn.BeginTx: database/sql begins one transaction at a time on a connection
DoBeginTx ==
    /\ clock < MaxOps
    /\ txState # "open"
    /\ db.txId < MaxTx
    /\ \E beginErr \in DriverErrors :
          LET r == ConnBeginTx(Receiver, beginErr)
          IN  /\ db' = ApplyCalls(db, r.calls, clock + 1)
              /\ last' = Called("Conn.BeginTx", NoCtx, <<>>, <<>>, r)
              /\ IF r.err = NoError
                 THEN txState' = "open" /\ txCtx' = "active" /\ buf' = <<>>
                 ELSE UNCHANGED <<txState, txCtx, buf>>
    /\ clock' = clock + 1
    /\ UNCHANGED <<config, callers, asked>>

\* txConn.ExecContext: a statement through the transaction's connection
DoTxExec ==
    /\ clock < MaxOps
    /\ txState = "open"
    /\ \E rq \in Requests, execErr \in DriverErrors :
          LET r == txConnExecContext(Receiver, rq.ctx, rq.sql, clock + 1, execErr)
          IN  /\ db' = ApplyCalls(db, r.calls, clock + 1)
              /\ buf' = buf \o r.added
              /\ last' = Called("txConn.ExecContext", rq.ctx, rq.sql, <<>>, r)
    /\ clock' = clock + 1
    /\ UNCHANGED <<config, callers, asked, txState, txCtx>>

\* loggingTx.Commit
DoCommit ==
    /\ clock < MaxOps
    /\ txState = "open"
    /\ \E insErr \in DriverErrors, rollbackErr \in DriverErrors,
          commitErr \in DriverErrors :
          LET r == Commit(Receiver, drain(buf).ms, txCtx, insErr, rollbackErr, commitErr)
          IN  /\ db' = ApplyCalls(db, r.calls, clock + 1)
              /\ last' = Called("loggingTx.Commit", NoCtx, <<>>, drain(buf).ms, r)
              /\ txState' = IF r.err = NoError THEN "committed" ELSE "aborted"
    /\ buf' = drain(buf).left
    /\ clock' = clock + 1
    /\ UNCHANGED <<config, callers, asked, txCtx>>

\* loggingTx.Rollback
DoRollback ==
    /\ clock < MaxOps
    /\ txState = "open"
    /\ \E rollbackErr \in DriverErrors :
          LET r == Rollback(Receiver, drain(buf).ms, rollbackErr)
          IN  /\ db' = ApplyCalls(db, r.calls, clock + 1)
              /\ last' = Called("loggingTx.Rollback", NoCtx, <<>>, drain(buf).ms, r)
    /\ txState' = "aborted"
    /\ buf' = drain(buf).left
    /\ clock' = clock + 1
    /\ UNCHANGED <<config, callers, asked, txCtx>>

\* the caller cancels the context it passed to BeginTx
CancelCtx ==
    /\ txState = "open"
    /\ txCtx = "active"
    /\ txCtx' = "canceled"
    /\ UNCHANGED <<config, callers, asked, txState, buf, db, clock, last>>

Next ==
    \/ DoConnExec
    \/ DoBeginTx
    \/ DoTxExec
    \/ DoCommit
    \/ DoRollback
    \/ CancelCtx

Spec == Init /\ [][Next]_vars

-----------------------------------------------------------------------------
(* The other routes to the database: query calls and prepared statements.  *)

\* the statements sent down these routes
Routed == {SqlInsert, SqlSelect}

\* what the caller does with a prepared statement: execute it when the prepare
\* call succeeded
Prepared(r, sql, execErr) ==
    IF r.err # NoError THEN r
    ELSE Result(r.calls \o <<StmtExecCall(sql, execErr)>>, r.logs, execErr, r.built,
                r.added)

\* txConn.QueryContext
DoTxQuery ==
    /\ clock < MaxOps
    /\ txState = "open"
    /\ \E sql \in Routed, queryErr \in DriverErrors :
          LET r == txConnQueryContext(Receiver, ValidCtx, sql, queryErr)
          IN  /\ db' = ApplyCalls(db, r.calls, clock + 1)
              /\ last' = Called("txConn.QueryContext", ValidCtx, sql, <<>>, r)
    /\ clock' = clock + 1
    /\ UNCHANGED <<config, callers, asked, txState, txCtx, buf>>

\* txConn.PrepareContext, and the statement it returned executed
DoTxPrepare ==
    /\ clock < MaxOps
    /\ txState = "open"
    /\ \E sql \in Routed, prepErr \in DriverErrors, execErr \in DriverErrors :
          LET r == Prepared(txConnPrepareContext(Receiver, ValidCtx, sql, prepErr),
                            sql, execErr)
          IN  /\ db' = ApplyCalls(db, r.calls, clock + 1)
              /\ last' = Called("txConn.PrepareContext", ValidCtx, sql, <<>>, r)
    /\ clock' = clock + 1
    /\ UNCHANGED <<config, callers, asked, txState, txCtx, buf>>

\* Conn.Prepare, and the statement it returned executed: what database/sql does
\* for Prepare, and for Query on a connection that is no driver.QueryerContext
DoConnPrepare ==
    /\ clock < MaxOps
    /\ \E sql \in Routed, prepErr \in DriverErrors, execErr \in DriverErrors :
          LET r == Prepared(ConnPrepare(Receiver, sql, prepErr), sql, execErr)
          IN  /\ db' = ApplyCalls(db, r.calls, clock + 1)
              /\ last' = Called("Conn.Prepare", ValidCtx, sql, <<>>, r)
    /\ clock' = clock + 1
    /\ UNCHANGED <<config, callers, asked, txState, txCtx, buf>>

NextRoutes ==
    \/ Next
    \/ DoTxQuery
    \/ DoTxPrepare
    \/ DoConnPrepare

SpecRoutes == Init /\ [][NextRoutes]_vars

-----------------------------------------------------------------------------
(* The filter chain on its own: TableFilters.ShouldLog.                    *)

\* NewIncludePatternFilter("user*", "order*") of TestAuditDriver_TableFilters
IncludeUserOrder ==
    [kind |-> "IncludePattern", patterns |-> {<<"user", "*">>, <<"order", "*">>}]

\* NewExcludePatternFilter("*_log")
ExcludeLogs == [kind |-> "ExcludePattern", patterns |-> {<<"*", "_log">>}]

Filters == {ExcludeTemp, IncludeUserOrder, ExcludeLogs}

\* the chains of at most MaxChain members
Chains == UNION {[1..n -> Filters] : n \in 0..MaxChain}

TableNames ==
    {<<"user", "s">>, <<"temp_", "user", "s">>, <<"products">>, <<"order", "s", "_log">>,
     <<"my_", "temp_", "user", "s">>}

InitFilters ==
    /\ readOnly = FALSE
    /\ tableFilters \in Chains
    /\ caps = AllCaps
    /\ operatorIDExtractor = "default"
    /\ callers = <<>>
    /\ asked = NotAsked
    /\ analysed = Analysed
    /\ txState = "none"
    /\ txCtx = "none"
    /\ buf = <<>>
    /\ db = NoDB
    /\ clock = 0
    /\ last = Called("none", NoCtx, <<>>, <<>>, Result(<<>>, <<>>, NoError, FALSE, <<>>))

\* filters.ShouldLog(tableName)
AskShouldLog ==
    /\ \E t \in TableNames :
          asked' = [op |-> "TableFilters.ShouldLog", tableName |-> t,
                    result |-> ShouldLog(tableFilters, t)]
    /\ UNCHANGED <<config, callers, txState, txCtx, buf, db, clock, last>>

NextFilters == AskShouldLog

SpecFilters == InitFilters /\ [][NextFilters]_vars

-----------------------------------------------------------------------------
(* The interpolator on its own: postgres.InterpolateSQL.                   *)

\* SELECT 1
SqlSelectOne == <<"SELECT", " ", "1">>

\* UPDATE users SET name = $2 WHERE id = $1
SqlUpdateById ==
    <<"UPDATE", " ", "users", " ", "SET", " ", "name", " ", "=", " ", "$2", " ", "WHERE",
      " ", "id", " ", "=", " ", "$1">>

\* DELETE FROM users WHERE id IN ($1, $2, $3)
SqlDeleteThree ==
    <<"DELETE", " ", "FROM", " ", "users", " ", "WHERE", " ", "id", " ", "IN", " ", "(",
      "$1", ",", " ", "$2", ",", " ", "$3", ")">>

Queries == {SqlSelectOne, SqlUpdate, SqlInsertNamed, SqlUpdateById, SqlDeleteThree}

\* driver.NamedValue values: two strings, one with a quote in it, nil and an int64
ArgValues ==
    {[t |-> "string", v |-> <<"u1">>], [t |-> "string", v |-> <<"O", "'", "Brien">>],
     [t |-> "nil", v |-> <<>>], [t |-> "int64", v |-> <<"42">>]}

ArgLists == UNION {[1..n -> ArgValues] : n \in 0..MaxArgs}

InitInterpolate ==
    /\ readOnly = FALSE
    /\ tableFilters = <<>>
    /\ caps = AllCaps
    /\ operatorIDExtractor = "default"
    /\ callers = <<>>
    /\ asked = NotAsked
    /\ analysed = Analysed
    /\ txState = "none"
    /\ txCtx = "none"
    /\ buf = <<>>
    /\ db = NoDB
    /\ clock = 0
    /\ last = Called("none", NoCtx, <<>>, <<>>, Result(<<>>, <<>>, NoError, FALSE, <<>>))

\* postgres.InterpolateSQL(query, args)
AskInterpolateSQL ==
    /\ \E q \in Queries, a \in ArgLists :
          asked' = [op |-> "InterpolateSQL", query |-> q, args |-> a,
                    result |-> InterpolateSQL(q, a)]
    /\ UNCHANGED <<config, callers, txState, txCtx, buf, db, clock, last>>

NextInterpolate == AskInterpolateSQL

SpecInterpolate == InitInterpolate /\ [][NextInterpolate]_vars

-----------------------------------------------------------------------------
(* One statement end to end: INSERT INTO "users" ("id","name") VALUES      *)
(* ($1,$2) with arguments "u1" and "O'Brien" under op-1 and ex-1, on a     *)
(* driver with default options.                                            *)

InitExample ==
    /\ readOnly = FALSE
    /\ tableFilters = <<>>
    /\ caps = AllCaps
    /\ operatorIDExtractor = "default"
    /\ callers = <<>>
    /\ asked = NotAsked
    /\ analysed = Analysed
    /\ txState = "none"
    /\ txCtx = "none"
    /\ buf = <<>>
    /\ db = NoDB
    /\ clock = 0
    /\ last = Called("none", NoCtx, <<>>, <<>>, Result(<<>>, <<>>, NoError, FALSE, <<>>))

\* Conn.ExecContext of the statement
DoConnExecExample ==
    /\ clock < MaxOps
    /\ \E insErr \in DriverErrors, execErr \in DriverErrors :
          LET r == ConnExecContext(Receiver, ValidCtx, SqlInsertNamed, clock + 1, insErr,
                                   execErr)
          IN  /\ db' = ApplyCalls(db, r.calls, clock + 1)
              /\ last' = Called("Conn.ExecContext", ValidCtx, SqlInsertNamed, <<>>, r)
    /\ clock' = clock + 1
    /\ UNCHANGED <<config, callers, asked, txState, txCtx, buf>>

\* txConn.ExecContext of the statement
DoTxExecExample ==
    /\ clock < MaxOps
    /\ txState = "open"
    /\ \E execErr \in DriverErrors :
          LET r == txConnExecContext(Receiver, ValidCtx, SqlInsertNamed, clock + 1, execErr)
          IN  /\ db' = ApplyCalls(db, r.calls, clock + 1)
              /\ buf' = buf \o r.added
              /\ last' = Called("txConn.ExecContext", ValidCtx, SqlInsertNamed, <<>>, r)
    /\ clock' = clock + 1
    /\ UNCHANGED <<config, callers, asked, txState, txCtx>>

NextExample ==
    \/ DoConnExecExample
    \/ DoTxExecExample
    \/ DoBeginTx
    \/ DoCommit
    \/ DoRollback
    \/ CancelCtx

SpecExample == InitExample /\ [][NextExample]_vars

-----------------------------------------------------------------------------
(* The classifier on its own: isDML.                                       *)

\* what may stand before a statement: a blank, a line comment, a block comment
LeadPieces == {<<" ">>, <<"--", "c", "\n">>, <<"/*", "c", "*/">>}

RECURSIVE Concat(_)
Concat(pieces) == IF pieces = <<>> THEN <<>> ELSE Head(pieces) \o Concat(Tail(pieces))

\* at most MaxLead of them in any order
Leads == {Concat(l) : l \in UNION {[1..n -> LeadPieces] : n \in 0..MaxLead}}

\* no WITH clause; WITH x AS (SELECT 1); WITH x AS (SELECT f(1))
WithClauses ==
    {<<>>,
     <<"WITH", " ", "x", " ", "AS", " ", "(", "SELECT", " ", "1", ")", " ">>,
     <<"WITH", " ", "x", " ", "AS", " ", "(", "SELECT", " ", "f", "(", "1", ")", ")",
       " ">>}

Verbs == {SqlInsertDefault, SqlUpdate, SqlDeleteTemp, SqlSelect}

InitClassifier ==
    /\ readOnly = FALSE
    /\ tableFilters = <<>>
    /\ caps = AllCaps
    /\ operatorIDExtractor = "default"
    /\ callers = <<>>
    /\ asked = NotAsked
    /\ analysed = Analysed
    /\ txState = "none"
    /\ txCtx = "none"
    /\ buf = <<>>
    /\ db = NoDB
    /\ clock = 0
    /\ last = Called("none", NoCtx, <<>>, <<>>, Result(<<>>, <<>>, NoError, FALSE, <<>>))

\* isDML(sql)
AskIsDML ==
    /\ \E lead \in Leads, with \in WithClauses, verb \in Verbs :
          asked' = [op |-> "isDML", sql |-> lead \o with \o verb, lead |-> lead,
                    with |-> with, result |-> isDML(lead \o with \o verb)]
    /\ UNCHANGED <<config, callers, txState, txCtx, buf, db, clock, last>>

NextClassifier == AskIsDML

SpecClassifier == InitClassifier /\ [][NextClassifier]_vars

-----------------------------------------------------------------------------
(* The action/table extractor on its own: parseTableAction.                *)

\* the leading verb of a statement, in either case, and its action
Heads ==
    {[words |-> <<"INSERT", " ", "INTO", " ">>, action |-> "insert"],
     [words |-> <<"insert", " ", "into", " ">>, action |-> "insert"],
     [words |-> <<"UPDATE", " ">>, action |-> "update"],
     [words |-> <<"update", " ">>, action |-> "update"],
     [words |-> <<"DELETE", " ", "FROM", " ">>, action |-> "delete"],
     [words |-> <<"delete", " ", "from", " ">>, action |-> "delete"]}

Identifiers == {<<"users">>, <<"Users">>}

\* users, `users`, "users", [users]
Quotings ==
    {[open |-> <<>>, close |-> <<>>],
     [open |-> <<Backtick>>, close |-> <<Backtick>>],
     [open |-> <<"\"">>, close |-> <<"\"">>],
     [open |-> <<"[">>, close |-> <<"]">>]}

\* 'INSERT INTO logs', 'UPDATE logs', 'DELETE FROM logs'
StringLiterals ==
    {<<"'", "INSERT", " ", "INTO", " ", "logs", "'">>,
     <<"'", "UPDATE", " ", "logs", "'">>,
     <<"'", "DELETE", " ", "FROM", " ", "logs", "'">>}

\* what follows the table name: DEFAULT VALUES, a column list written directly
\* after the name, a string literal as value; SET name = 'a', SET name = a
\* literal; nothing, WHERE name = a literal
Rests(action) ==
    CASE action = "insert" ->
            {<<" ", "DEFAULT", " ", "VALUES">>,
             <<"(", "id", ")", " ", "VALUES", " ", "(", "1", ")">>}
            \cup {<<" ", "VALUES", " ", "(">> \o l \o <<")">> : l \in StringLiterals}
      [] action = "update" ->
            {<<" ", "SET", " ", "name", " ", "=", " ", "'", "a", "'">>}
            \cup {<<" ", "SET", " ", "name", " ", "=", " ">> \o l : l \in StringLiterals}
      [] action = "delete" ->
            {<<>>}
            \cup {<<" ", "WHERE", " ", "name", " ", "=", " ">> \o l : l \in StringLiterals}

\* parseTableAction(sql)
AskParseTableAction ==
    /\ \E head \in Heads, name \in Identifiers, q \in Quotings :
          \E rest \in Rests(head.action) :
            LET sql == head.words \o q.open \o name \o q.close \o rest
            IN  asked' = [op |-> "parseTableAction", sql |-> sql, verb |-> head.action,
                          name |-> name, quoted |-> q.open # <<>>, rest |-> rest,
                          result |-> parseTableAction(sql)]
    /\ UNCHANGED <<config, callers, txState, txCtx, buf, db, clock, last>>

NextTableAction == AskParseTableAction

SpecTableAction == InitClassifier /\ [][NextTableAction]_vars

-----------------------------------------------------------------------------
(* A caller that keeps using the txConn and the loggingTx of a transaction *)
(* after its Commit or Rollback: neither wrapper records that it is over.  *)

Done == {"committed", "aborted"}

\* txConn.ExecContext after Commit or Rollback
DoTxExecDone ==
    /\ clock < MaxOps
    /\ txState \in Done
    /\ \E rq \in Requests, execErr \in DriverErrors :
          LET r == txConnExecContext(Receiver, rq.ctx, rq.sql, clock + 1, execErr)
          IN  /\ db' = ApplyCalls(db, r.calls, clock + 1)
              /\ buf' = buf \o r.added
              /\ last' = Called("txConn.ExecContext", rq.ctx, rq.sql, <<>>, r)
    /\ clock' = clock + 1
    /\ UNCHANGED <<config, callers, asked, txState, txCtx>>

\* loggingTx.Commit after Commit or Rollback
DoCommitDone ==
    /\ clock < MaxOps
    /\ txState \in Done
    /\ \E insErr \in DriverErrors, rollbackErr \in DriverErrors,
          commitErr \in DriverErrors :
          LET r == Commit(Receiver, drain(buf).ms, txCtx, insErr, rollbackErr, commitErr)
          IN  /\ db' = ApplyCalls(db, r.calls, clock + 1)
              /\ last' = Called("loggingTx.Commit", NoCtx, <<>>, drain(buf).ms, r)
    /\ buf' = drain(buf).left
    /\ clock' = clock + 1
    /\ UNCHANGED <<config, callers, asked, txState, txCtx>>

\* loggingTx.Rollback after Commit or Rollback
DoRollbackDone ==
    /\ clock < MaxOps
    /\ txState \in Done
    /\ \E rollbackErr \in DriverErrors :
          LET r == Rollback(Receiver, drain(buf).ms, rollbackErr)
          IN  /\ db' = ApplyCalls(db, r.calls, clock + 1)
              /\ last' = Called("loggingTx.Rollback", NoCtx, <<>>, drain(buf).ms, r)
    /\ buf' = drain(buf).left
    /\ clock' = clock + 1
    /\ UNCHANGED <<config, callers, asked, txState, txCtx>>

NextTerminal ==
    \/ DoBeginTx
    \/ DoTxExec
    \/ DoCommit
    \/ DoRollback
    \/ CancelCtx
    \/ DoTxExecDone
    \/ DoCommitDone
    \/ DoRollbackDone

SpecTerminal == InitExample /\ [][NextTerminal]_vars

-----------------------------------------------------------------------------
(* Statements that read, issued within a transaction.                      *)

Reads == {SqlSelect, SqlSelectById}

\* txConn.ExecContext of a statement that reads
DoTxExecRead ==
    /\ clock < MaxOps
    /\ txState = "open"
    /\ \E ctx \in Contexts, sql \in Reads, execErr \in DriverErrors :
          LET r == txConnExecContext(Receiver, ctx, sql, clock + 1, execErr)
          IN  /\ db' = ApplyCalls(db, r.calls, clock + 1)
              /\ buf' = buf \o r.added
              /\ last' = Called("txConn.ExecContext", ctx, sql, <<>>, r)
    /\ clock' = clock + 1
    /\ UNCHANGED <<config, callers, asked, txState, txCtx>>

\* txConn.QueryContext of a statement that reads
DoTxQueryRead ==
    /\ clock < MaxOps
    /\ txState = "open"
    /\ \E ctx \in Contexts, sql \in Reads, queryErr \in DriverErrors :
          LET r == txConnQueryContext(Receiver, ctx, sql, queryErr)
          IN  /\ db' = ApplyCalls(db, r.calls, clock + 1)
              /\ last' = Called("txConn.QueryContext", ctx, sql, <<>>, r)
    /\ clock' = clock + 1
    /\ UNCHANGED <<config, callers, asked, txState, txCtx, buf>>

NextReads ==
    \/ DoBeginTx
    \/ DoTxExec
    \/ DoTxExecRead
    \/ DoTxQueryRead
    \/ DoCommit
    \/ DoRollback

SpecReads == Init /\ [][NextReads]_vars

-----------------------------------------------------------------------------
(* The batch insert of loggingTx.log on its own.                           *)

\* the records a transaction may have buffered
BatchRecords ==
    {[ID |-> id, OperatorID |-> "op-1", ExecutionID |-> "ex-1",
      TableName |-> <<"users">>, Action |-> action, SQL |-> SqlInsertDefault,
      ModifiedAt |-> 10 + id] : id \in 1..3, action \in {"insert", "delete"}}

Batches == UNION {[1..k -> BatchRecords] : k \in 1..MaxBatch}

\* the statement and the arguments log hands to execCtx.ExecContext, once
AskLog ==
    /\ asked = NotAsked
    /\ \E modifications \in Batches :
          asked' = [op |-> "log", modifications |-> modifications,
                    query |-> batchQuery(modifications),
                    args |-> batchArgs(modifications)]
    /\ UNCHANGED <<config, callers, txState, txCtx, buf, db, clock, last>>

NextBatch == AskLog

SpecBatch == InitExample /\ [][NextBatch]_vars

-----------------------------------------------------------------------------
(* Statements the parser rejects.                                          *)

\* Conn.ExecContext of such a statement
DoConnExecMalformed ==
    /\ clock < MaxOps
    /\ \E ctx \in Contexts, sql \in Malformed, insErr \in DriverErrors,
          execErr \in DriverErrors :
          LET r == ConnExecContext(Receiver, ctx, sql, clock + 1, insErr, execErr)
          IN  /\ db' = ApplyCalls(db, r.calls, clock + 1)
              /\ last' = Called("Conn.ExecContext", ctx, sql, <<>>, r)
    /\ clock' = clock + 1
    /\ UNCHANGED <<config, callers, asked, txState, txCtx, buf>>

\* txConn.ExecContext of such a statement
DoTxExecMalformed ==
    /\ clock < MaxOps
    /\ txState = "open"
    /\ \E ctx \in Contexts, sql \in Malformed, execErr \in DriverErrors :
          LET r == txConnExecContext(Receiver, ctx, sql, clock + 1, execErr)
          IN  /\ db' = ApplyCalls(db, r.calls, clock + 1)
              /\ buf' = buf \o r.added
              /\ last' = Called("txConn.ExecContext", ctx, sql, <<>>, r)
    /\ clock' = clock + 1
    /\ UNCHANGED <<config, callers, asked, txState, txCtx>>

NextMalformed ==
    \/ DoBeginTx
    \/ DoTxExec
    \/ DoConnExecMalformed
    \/ DoTxExecMalformed
    \/ DoCommit
    \/ DoRollback

SpecMalformed == Init /\ [][NextMalformed]_vars

-----------------------------------------------------------------------------
(* Callers that begin transactions with options of their own.              *)

\* driver.TxOptions, by its ReadOnly field
TxOptions == {[ReadOnly |-> ro] : ro \in BOOLEAN}

\* Conn.BeginTx(ctx, opts); asked keeps the options the caller gave
DoBeginTxOpts ==
    /\ clock < MaxOps
    /\ txState # "open"
    /\ db.txId < MaxTx
    /\ \E opts \in TxOptions, beginErr \in DriverErrors :
          LET r == ConnBeginTxOpts(Receiver, opts, beginErr)
          IN  /\ db' = ApplyCalls(db, r.calls, clock + 1)
              /\ last' = Called("Conn.BeginTx", NoCtx, <<>>, <<>>, r)
              /\ asked' = [op |-> "BeginTx", opts |-> opts]
              /\ IF r.err = NoError
                 THEN txState' = "open" /\ txCtx' = "active" /\ buf' = <<>>
                 ELSE UNCHANGED <<txState, txCtx, buf>>
    /\ clock' = clock + 1
    /\ UNCHANGED <<config, callers>>

NextTxOptions ==
    \/ DoBeginTxOpts
    \/ DoTxExec
    \/ DoCommit
    \/ DoRollback

SpecTxOptions == Init /\ [][NextTxOptions]_vars

-----------------------------------------------------------------------------
(* A driver configured with WithOperatorIDExtractor.                       *)

\* contexts of callers that keep their user under current_user_id: unset, set
\* to the empty string, set to a user
UserContexts ==
    {[operatorID |-> "", executionID |-> "ex-1"]} \cup
    {[operatorID |-> "", executionID |-> "ex-1", current_user_id |-> u] :
        u \in {"", "u-1"}}

InitExtractors ==
    /\ readOnly = FALSE
    /\ tableFilters = <<>>
    /\ caps = AllCaps
    /\ operatorIDExtractor \in {"default", "custom"}
    /\ callers = <<>>
    /\ asked = NotAsked
    /\ analysed = Analysed
    /\ txState = "none"
    /\ txCtx = "none"
    /\ buf = <<>>
    /\ db = NoDB
    /\ clock = 0
    /\ last = Called("none", NoCtx, <<>>, <<>>, Result(<<>>, <<>>, NoError, FALSE, <<>>))

\* Conn.ExecContext of an INSERT by such a caller
DoConnExecAsUser ==
    /\ clock < MaxOps
    /\ \E ctx \in UserContexts, insErr \in DriverErrors, execErr \in DriverErrors :
          LET r == ConnExecContext(Receiver, ctx, SqlInsert, clock + 1, insErr, execErr)
          IN  /\ db' = ApplyCalls(db, r.calls, clock + 1)
              /\ last' = Called("Conn.ExecContext", ctx, SqlInsert, <<>>, r)
    /\ clock' = clock + 1
    /\ UNCHANGED <<config, callers, asked, txState, txCtx, buf>>

NextExtractors ==
    \/ Next
    \/ DoConnExecAsUser

SpecExtractors == InitExtractors /\ [][NextExtractors]_vars

-----------------------------------------------------------------------------
(* Concurrent callers: TestAuditDriver_ConcurrentOperations.  Every        *)
(* goroutine loops over db.ExecContext under identifiers of its own;       *)
(* database/sql gives each call a connection no other call is using, so    *)
(* the calls meet only in the database.  A Conn.ExecContext is cut at the  *)
(* calls it makes on the wrapped connection, where it can block.           *)

Goroutines == 1..NumGoroutines

\* opID and execID of goroutine g
CallerCtx(g) ==
    [operatorID |-> "op-" \o ToString(g), executionID |-> "ex-" \o ToString(g)]

\* what uuid.New returns in the j-th call of goroutine g: a value no other call gets
NewID(g, j) == (g - 1) * OperationsPerGoroutine + j

\* a goroutine before its first call
Idle == [pc |-> "idle", n |-> 0, now |-> 0, todo |-> <<>>, err |-> NoError]

InitConcurrent ==
    /\ \E cfg \in Configs :
          /\ readOnly = cfg.readOnly
          /\ tableFilters = cfg.filters
          /\ caps = cfg.caps
    /\ operatorIDExtractor = "default"
    /\ callers = [g \in Goroutines |-> Idle]
    /\ asked = NotAsked
    /\ analysed = Analysed
    /\ txState = "none"
    /\ txCtx = "none"
    /\ buf = <<>>
    /\ db = NoDB
    /\ clock = 0
    /\ last = Called("none", NoCtx, <<>>, <<>>, Result(<<>>, <<>>, NoError, FALSE, <<>>))

\* goroutine g enters db.ExecContext: Conn.ExecContext up to its first call on
\* the wrapped connection; todo is the calls it goes on to make and err what it
\* returns after them
CallerEnter ==
    \E g \in Goroutines, insErr \in DriverErrors, execErr \in DriverErrors :
        LET id == NewID(g, callers[g].n + 1)
            r == ConnExecContext(Receiver, CallerCtx(g), SqlInsert, id, insErr, execErr)
        IN  /\ callers[g].pc = "idle"
            /\ callers' = [callers EXCEPT ![g] =
                              [pc |-> "running", n |-> @.n, now |-> id,
                               todo |-> r.calls, err |-> r.err]]
            /\ UNCHANGED <<config, asked, txState, txCtx, buf, db, clock, last>>

\* the next call of goroutine g reaches the database
CallerCall ==
    \E g \in Goroutines :
        /\ callers[g].pc = "running"
        /\ callers[g].todo # <<>>
        /\ db' = ApplyCall(db, Head(callers[g].todo), callers[g].now)
        /\ callers' = [callers EXCEPT ![g].todo = Tail(@)]
        /\ UNCHANGED <<config, asked, txState, txCtx, buf, clock, last>>

\* db.ExecContext returns to goroutine g, which stops at the first error and
\* after operationsPerGoroutine calls
CallerReturn ==
    \E g \in Goroutines :
        /\ callers[g].pc = "running"
        /\ callers[g].todo = <<>>
        /\ callers' = [callers EXCEPT ![g] =
                          IF @.err # NoError THEN [@ EXCEPT !.pc = "failed"]
                          ELSE [@ EXCEPT !.n = @ + 1,
                                         !.pc = IF callers[g].n + 1 = OperationsPerGoroutine
                                                THEN "done" ELSE "idle"]]
        /\ UNCHANGED <<config, asked, txState, txCtx, buf, db, clock, last>>

NextConcurrent ==
    \/ CallerEnter
    \/ CallerCall
    \/ CallerReturn

SpecConcurrent == InitConcurrent /\ [][NextConcurrent]_vars

-----------------------------------------------------------------------------
(* Concurrent transactions: each goroutine has a connection of its own and *)
(* begins, uses and ends transactions on it.  Here buf is the heap of      *)
(* buffers, buf[b] the records of buffer b, and callers[g] says which      *)
(* buffer the loggingTx and txConn of goroutine g point to.                *)

\* fault variant of the allocation: one buffer for all transactions
newBufferShared(g) == 1

\* buf := &buffer{} in the BeginTx of goroutine g: a buffer no other
\* transaction points to
newBuffer(g) == g

NoTx == [txState |-> "none", buf |-> 0, executed |-> {}, pendData |-> {}]

InitTransactions ==
    /\ readOnly = FALSE
    /\ tableFilters = <<>>
    /\ caps = AllCaps
    /\ operatorIDExtractor = "default"
    /\ callers = [g \in Goroutines |-> NoTx]
    /\ asked = NotAsked
    /\ analysed = Analysed
    /\ txState = "none"
    /\ txCtx = "none"
    /\ buf = [b \in Goroutines |-> <<>>]
    /\ db = NoDB
    /\ clock = 0
    /\ last = Called("none", NoCtx, <<>>, <<>>, Result(<<>>, <<>>, NoError, FALSE, <<>>))

\* the database as the connection of goroutine g sees it
ViewOf(g) ==
    [db EXCEPT !.active = callers[g].txState = "open", !.txId = g,
               !.pendData = callers[g].pendData]

\* what the calls of goroutine g leave durable
Durable(v) == [db EXCEPT !.audit = v.audit, !.data = v.data]

\* Conn.BeginTx on the connection of goroutine g
TxBegin ==
    /\ clock < MaxOps
    /\ \E g \in Goroutines, beginErr \in DriverErrors :
          LET r == ConnBeginTx(Receiver, beginErr)
          IN  /\ callers[g].txState # "open"
              /\ last' = Called("Conn.BeginTx", CallerCtx(g), <<>>, <<>>, r)
              /\ IF r.err = NoError
                 THEN /\ callers' = [callers EXCEPT ![g] =
                                        [txState |-> "open", buf |-> newBuffer(g),
                                         executed |-> {}, pendData |-> {}]]
                      /\ buf' = [buf EXCEPT ![newBuffer(g)] = <<>>]
                 ELSE UNCHANGED <<callers, buf>>
    /\ clock' = clock + 1
    /\ UNCHANGED <<config, asked, txState, txCtx, db>>

\* txConn.ExecContext in the transaction of goroutine g
TxExec ==
    /\ clock < MaxOps
    /\ \E g \in Goroutines, execErr \in DriverErrors :
          LET r == txConnExecContext(Receiver, CallerCtx(g), SqlInsert, clock + 1, execErr)
              b == callers[g].buf
          IN  /\ callers[g].txState = "open"
              /\ buf' = [buf EXCEPT ![b] = @ \o r.added]
              /\ callers' = [callers EXCEPT
                                ![g].executed = @ \cup {clock + 1},
                                ![g].pendData =
                                    ApplyCalls(ViewOf(g), r.calls, clock + 1).pendData]
              /\ last' = Called("txConn.ExecContext", CallerCtx(g), SqlInsert, <<>>, r)
    /\ clock' = clock + 1
    /\ UNCHANGED <<config, asked, txState, txCtx, db>>

\* loggingTx.Commit of the transaction of goroutine g
TxCommit ==
    /\ clock < MaxOps
    /\ \E g \in Goroutines, insErr \in DriverErrors, rollbackErr \in DriverErrors,
          commitErr \in DriverErrors :
          LET b == callers[g].buf
              r == Commit(Receiver, drain(buf[b]).ms, "active", insErr, rollbackErr,
                          commitErr)
          IN  /\ callers[g].txState = "open"
              /\ db' = Durable(ApplyCalls(ViewOf(g), r.calls, clock + 1))
              /\ buf' = [buf EXCEPT ![b] = drain(buf[b]).left]
              /\ callers' = [callers EXCEPT
                                ![g].txState =
                                    IF r.err = NoError THEN "committed" ELSE "aborted",
                                ![g].pendData = {}]
              /\ last' = Called("loggingTx.Commit", CallerCtx(g), <<>>,
                                drain(buf[b]).ms, r)
    /\ clock' = clock + 1
    /\ UNCHANGED <<config, asked, txState, txCtx>>

\* loggingTx.Rollback of the transaction of goroutine g
TxRollback ==
    /\ clock < MaxOps
    /\ \E g \in Goroutines, rollbackErr \in DriverErrors :
          LET b == callers[g].buf
              r == Rollback(Receiver, drain(buf[b]).ms, rollbackErr)
          IN  /\ callers[g].txState = "open"
              /\ buf' = [buf EXCEPT ![b] = drain(buf[b]).left]
              /\ callers' = [callers EXCEPT ![g].txState = "aborted",
                                            ![g].pendData = {}]
              /\ last' = Called("loggingTx.Rollback", CallerCtx(g), <<>>,
                                drain(buf[b]).ms, r)
    /\ clock' = clock + 1
    /\ UNCHANGED <<config, asked, txState, txCtx, db>>

NextTransactions ==
    \/ TxBegin
    \/ TxExec
    \/ TxCommit
    \/ TxRollback

SpecTransactions == InitTransactions /\ [][NextTransactions]_vars

-----------------------------------------------------------------------------
(* Vocabulary of the properties.                                           *)

\* positions of the audit inserts, of the primary statements and of the calls
\* named fn in a handler's calls
Inserts(calls) == {i \in DOMAIN calls : IsAuditInsert(calls[i])}
Primaries(calls) ==
    {i \in DOMAIN calls : calls[i].fn = "ExecContext" /\ ~IsAuditInsert(calls[i])}
Named(calls, fn) == {i \in DOMAIN calls : calls[i].fn = fn}

\* errors.Is along the wrap chain
Carries(err, cause) == \E n \in 0..Len(err) : Drop(err, n) = cause

\* the rows a transaction wrote
RowsOfTx(rows, tx) == {r \in rows : r.tx = tx}

-----------------------------------------------------------------------------
(* Commit gate and rollback.                                               *)

\* Commit drained a non-empty buffer and the batched insert it issued failed
BatchInsertFailed ==
    /\ last.op = "loggingTx.Commit"
    /\ Len(last.drained) > 0
    /\ \E i \in Inserts(last.calls) : last.calls[i].err # NoError

\* C1: when Commit finds a non-empty buffer and the batched audit insert fails,
\* the underlying transaction is rolled back, the underlying Commit is never
\* invoked, the error returned carries the insert's failure, and neither data
\* rows nor audit rows of that transaction persist.
C1_FailedFlushRollsBack ==
    BatchInsertFailed =>
        /\ Named(last.calls, "Rollback") # {}
        /\ Named(last.calls, "Commit") = {}
        /\ last.err # NoError
        /\ \A i \in Inserts(last.calls) :
              Carries(last.err,
                      Wrap("failed to batch insert database modifications",
                           last.calls[i].err))
        /\ ~db.active
        /\ db.pendAudit = {} /\ db.pendData = {}
        /\ RowsOfTx(db.audit, db.txId) = {}
        /\ RowsOfTx(db.data, db.txId) = {}

\* a failed flush of two buffered records
C1_Witness == BatchInsertFailed /\ Len(last.drained) = 2

\* C2: Rollback discards the buffer and rolls the underlying transaction back
\* with no audit insert attempted, however many statements were buffered, and
\* no audit row of that transaction exists afterwards.
C2_RollbackDiscards ==
    /\ last.op = "loggingTx.Rollback" =>
          /\ buf = <<>>
          /\ last.calls = <<RollbackCall(last.err)>>
          /\ Inserts(last.calls) = {}
          /\ ~db.active
          /\ db.pendAudit = {}
    /\ txState = "aborted" => RowsOfTx(db.audit, db.txId) = {}

\* a rollback that drained two buffered records
C2_Witness == last.op = "loggingTx.Rollback" /\ Len(last.drained) = 2

\* C3 as stated: the underlying Commit is invoked only after the audit step
\* succeeded; a non-empty buffer gives exactly one batched insert of all the
\* buffered records in order on the same transaction before the Commit; an empty
\* buffer gives no insert and the Commit invoked directly.
C3_AsStated ==
    last.op = "loggingTx.Commit" =>
        LET calls == last.calls
            ins == Inserts(calls)
        IN  /\ \A j \in Named(calls, "Commit") :
                  j = Len(calls) /\ \A i \in ins : i < j /\ calls[i].err = NoError
            /\ Len(last.drained) > 0 =>
                  /\ Cardinality(ins) = 1
                  /\ \A i \in ins :
                        /\ calls[i].recs = last.drained
                        /\ calls[i].on = "tx"
            /\ Len(last.drained) = 0 => calls = <<CommitCall(last.err)>>

\* C3, amended: the underlying Commit is invoked only as the last call, only
\* after the audit step succeeded and only when the governing context is not
\* cancelled.  With a non-empty buffer and a transaction that supports
\* ExecContext, exactly one batched insert of all the buffered records in order
\* is issued first, on the same transaction; without that support no insert is
\* issued and the transaction is rolled back.  With an empty buffer no insert is
\* issued, and the Commit is the only call unless the context is cancelled, when
\* the only call is the Rollback.
C3_CommitAfterAuditStep ==
    last.op = "loggingTx.Commit" =>
        LET calls == last.calls
            ins == Inserts(calls)
            com == Named(calls, "Commit")
        IN  /\ \A j \in com :
                  /\ j = Len(calls)
                  /\ txCtx # "canceled"
                  /\ \A i \in ins : i < j /\ calls[i].err = NoError
            /\ Len(last.drained) > 0 =>
                  /\ Cardinality(ins) = IF caps.txExec THEN 1 ELSE 0
                  /\ \A i \in ins :
                        /\ i = 1
                        /\ calls[i].recs = last.drained
                        /\ calls[i].on = "tx"
                  /\ com # {} <=>
                        /\ txCtx # "canceled"
                        /\ \E i \in ins : calls[i].err = NoError
                  /\ com = {} => Named(calls, "Rollback") = {Len(calls)}
            /\ Len(last.drained) = 0 =>
                  calls = IF txCtx = "canceled"
                          THEN <<RollbackCall(calls[1].err)>>
                          ELSE <<CommitCall(last.err)>>

\* a commit that flushed two records and then committed
C3_Witness ==
    /\ last.op = "loggingTx.Commit"
    /\ Len(last.drained) = 2
    /\ Named(last.calls, "Commit") # {}


\* C4 as stated: for a committed transaction the audit rows written for it are as
\* many as the modifying statements that executed successfully in it, and when
\* the commit fails neither data rows nor audit rows of it persist.
C4_AsStated ==
    (last.op = "loggingTx.Commit" /\ ~readOnly) =>
        /\ Cardinality(RowsOfTx(db.audit, db.txId))
              = Cardinality(RowsOfTx(db.data, db.txId))
        /\ last.err # NoError =>
              RowsOfTx(db.audit, db.txId) = {} /\ RowsOfTx(db.data, db.txId) = {}

\* C5 as stated: while a transaction is open no audit insert is attempted for a
\* modifying statement executed in it; its record is in the buffer only.
C5_AsStated ==
    (db.active /\ last.op \in {"Conn.ExecContext", "txConn.ExecContext"}) =>
        /\ Inserts(last.calls) = {}
        /\ db.pendAudit = {}

-----------------------------------------------------------------------------
(* Direct path.                                                            *)

\* what build returns for the last statement of Conn.ExecContext
LastBuild == build(tableFilters, last.ctx, last.sql, ArgsOf(last.sql), clock)

\* the last call was a Conn.ExecContext that reached build
DirectBuild == last.op = "Conn.ExecContext" /\ caps.connExec /\ ~readOnly

\* C6: on the direct path an audit insert is issued before the primary statement,
\* never after it; when build fails or the audit insert fails the primary
\* statement is not executed and the error returned carries the failure.
C6_AuditBeforePrimary ==
    last.op = "Conn.ExecContext" =>
        LET calls == last.calls
        IN  /\ \A i \in Inserts(calls), j \in Primaries(calls) : i < j
            /\ Cardinality(Primaries(calls)) <= 1
            /\ (DirectBuild /\ LastBuild.err # NoError) =>
                  /\ calls = <<>>
                  /\ last.err # NoError
                  /\ Carries(last.err, LastBuild.err)
            /\ \A i \in Inserts(calls) :
                  calls[i].err # NoError =>
                      /\ Primaries(calls) = {}
                      /\ last.err # NoError
                      /\ Carries(last.err, calls[i].err)
            /\ (DirectBuild /\ LastBuild.built) => Inserts(calls) = {1}
            /\ (db.data # {} /\ \E r \in db.data : r.id = clock) =>
                  Primaries(calls) # {}

\* a direct modifying statement whose audit insert failed
C6_Witness ==
    /\ last.op = "Conn.ExecContext"
    /\ \E i \in Inserts(last.calls) : last.calls[i].err # NoError

\* C7 as stated: a modifying statement executed outside a transaction with a
\* valid context leaves exactly one audit row for it, with the table, action and
\* SQL of the statement and the operator and execution identifiers of the context.
C7_AsStated ==
    (/\ last.op = "Conn.ExecContext"
     /\ ~db.active
     /\ ~readOnly
     /\ last.ctx.operatorID # "" /\ last.ctx.executionID # ""
     /\ Modifies(last.sql)
     /\ \E i \in Primaries(last.calls) : last.calls[i].err = NoError) =>
        LET rows == {r \in db.audit : r.rec.ID = clock}
            stmt == PgQueryParse(last.sql)
        IN  /\ Cardinality(rows) = 1
            /\ \A r \in rows :
                  /\ r.rec.TableName = stmt.relname
                  /\ r.rec.Action =
                        (CASE stmt.node = "InsertStmt" -> "insert"
                           [] stmt.node = "UpdateStmt" -> "update"
                           [] stmt.node = "DeleteStmt" -> "delete")
                  /\ r.rec.SQL = InterpolateSQL(last.sql, ArgsOf(last.sql))
                  /\ r.rec.OperatorID = last.ctx.operatorID
                  /\ r.rec.ExecutionID = last.ctx.executionID

-----------------------------------------------------------------------------
(* Builder outcomes on both paths.                                         *)

ExecOps == {"Conn.ExecContext", "txConn.ExecContext"}

\* the step is a call of Conn.ExecContext or txConn.ExecContext
ExecStep == clock' # clock /\ last'.op \in ExecOps

\* what build returns for the statement of the step, when the step reaches
\* build
StepBuild == build(tableFilters, last'.ctx, last'.sql, ArgsOf(last'.sql), clock')

\* C8: a statement the classifier rejects leaves no trace on either path: no
\* record is built, the buffer is as before, no audit insert is issued and the
\* audit rows, pending and durable, are as before.
C8_RejectedLeavesNoTrace ==
    [][(ExecStep /\ ~isDML(last'.sql)) =>
          /\ ~last'.built
          /\ buf' = buf
          /\ Inserts(last'.calls) = {}
          /\ db'.audit = db.audit
          /\ db'.pendAudit = db.pendAudit]_vars

\* a rejected statement executed in a transaction that has a record buffered
C8_Witness ==
    /\ last.op = "txConn.ExecContext"
    /\ ~isDML(last.sql)
    /\ Primaries(last.calls) # {}
    /\ Len(buf) >= 1

\* C9: when build fails, for a missing operator or execution identifier or for
\* a failed table and action extraction, neither path executes the statement,
\* nothing is written or buffered, and the error returned is the build failure.
C9_BuildFailureAborts ==
    [][(ExecStep /\ caps.connExec /\ ~readOnly /\ StepBuild.err # NoError) =>
          /\ last'.calls = <<>>
          /\ buf' = buf
          /\ db' = db
          /\ ~last'.built
          /\ last'.err = Wrap("failed to build database modification", StepBuild.err)
      ]_vars

\* a statement refused in a transaction for its missing operator identifier,
\* with a record already buffered
C9_Witness ==
    /\ last.op = "txConn.ExecContext"
    /\ last.ctx.operatorID = ""
    /\ isDML(last.sql)
    /\ last.err = <<"failed to build database modification",
                    "failed to extract operator ID",
                    "operator ID not found in context">>
    /\ Len(buf) >= 1

\* C10 as stated: when the filter chain rejects the table of a modifying
\* statement, build returns no record and no error and the statement executes
\* unaudited; every record buffered, inserted or stored targets a table the chain
\* accepts.
C10_AsStated ==
    /\ \A i \in DOMAIN buf : ShouldLog(tableFilters, buf[i].TableName)
    /\ \A r \in db.audit \cup db.pendAudit : ShouldLog(tableFilters, r.rec.TableName)
    /\ \A i \in Inserts(last.calls) :
          \A k \in DOMAIN last.calls[i].recs :
              ShouldLog(tableFilters, last.calls[i].recs[k].TableName)
    /\ (/\ last.op \in ExecOps
        /\ caps.connExec /\ ~readOnly
        /\ isDML(last.sql)
        /\ parseTableAction(last.sql).err = NoError
        /\ ~ShouldLog(tableFilters, parseTableAction(last.sql).table)) =>
          /\ ~last.built
          /\ Primaries(last.calls) # {}
          /\ Inserts(last.calls) = {}

-----------------------------------------------------------------------------
(* Routes, cancellation, buffer contents, read-only mode, capabilities.    *)

RouteOps ==
    {"Conn.ExecContext", "txConn.ExecContext", "txConn.QueryContext",
     "txConn.PrepareContext", "Conn.Prepare"}

\* positions of the calls that ran a statement other than the audit insert
Ran(calls) ==
    {i \in DOMAIN calls : calls[i].fn \in RunsStatement /\ ~IsAuditInsert(calls[i])}

\* every record there is: buffered, pending in the transaction, or durable
Records ==
    {buf[i] : i \in DOMAIN buf} \cup {r.rec : r \in db.pendAudit \cup db.audit}

\* C11 as stated: a modifying statement that executed through the wrapped
\* connection with a valid context has an audit record, whether it went through
\* ExecContext, a prepared statement or a query call.
C11_AsStated ==
    (/\ last.op \in RouteOps
     /\ ~readOnly
     /\ last.ctx = ValidCtx
     /\ Modifies(last.sql)
     /\ \E i \in Ran(last.calls) : last.calls[i].err = NoError) =>
        \E rec \in Records : rec.ID = clock

\* Commit ran with the governing context cancelled
CanceledCommit == last.op = "loggingTx.Commit" /\ txCtx = "canceled"

\* C12 as stated: when the governing context is cancelled as Commit runs, the
\* underlying Commit is not invoked, the underlying transaction is rolled back
\* and the error returned is the cancellation.
C12_AsStated ==
    CanceledCommit =>
        /\ Named(last.calls, "Commit") = {}
        /\ Named(last.calls, "Rollback") # {}
        /\ Carries(last.err, CtxErr("canceled"))

\* C13 as stated: when the governing context is already cancelled as Commit is
\* invoked with a non-empty buffer, no batched audit insert is issued before the
\* transaction is rolled back.
C13_AsStated ==
    (CanceledCommit /\ Len(last.drained) > 0) =>
        /\ Inserts(last.calls) = {}
        /\ Named(last.calls, "Rollback") # {}

\* a step of txConn.ExecContext
TxExecStep == clock' # clock /\ last'.op = "txConn.ExecContext"

\* C14: a txConn.ExecContext whose underlying execution did not return success
\* leaves the buffer exactly as it was; the buffer changes only by appending the
\* one record built for the statement, and only when the underlying execution
\* returned success.
C14_FailedExecLeavesBuffer ==
    [][TxExecStep =>
          /\ (\A i \in Ran(last'.calls) : last'.calls[i].err # NoError) => buf' = buf
          /\ buf' # buf =>
                /\ \E i \in Ran(last'.calls) : last'.calls[i].err = NoError
                /\ buf' = Append(buf, StepBuild.mod)]_vars

\* a modifying statement whose record was built fails on the wrapped connection
\* while an earlier record is buffered
C14_Witness ==
    /\ last.op = "txConn.ExecContext"
    /\ last.built
    /\ \E i \in Ran(last.calls) : last.calls[i].err # NoError
    /\ Len(buf) = 1

\* the modifying statements the open transaction executed successfully through
\* txConn, identified by the time of their call
DoneInTx == {r.id : r \in {d \in db.pendData : d.by = "txConn"}}

\* C15 as stated: while a transaction is open the buffered records are, in
\* order, one per modifying statement executed successfully so far, and the
\* batched insert of Commit lists the drained records in that order.
C15_AsStated ==
    /\ (txState = "open" /\ ~readOnly) =>
          /\ {buf[i].ID : i \in DOMAIN buf} = DoneInTx
          /\ Len(buf) = Cardinality(DoneInTx)
          /\ \A i, j \in DOMAIN buf : i < j => buf[i].ID < buf[j].ID
    /\ last.op = "loggingTx.Commit" =>
          \A i \in Inserts(last.calls) : last.calls[i].recs = last.drained

\* C16: in read-only mode no record is ever built, buffered or written: both
\* ExecContext handlers make the one underlying call with the caller's statement
\* and return its result, and every BeginTx reaches the underlying connection
\* with ReadOnly set.
C16_ReadOnlyPassesThrough ==
    readOnly =>
        /\ Records = {}
        /\ ~last.built
        /\ last.logs = <<>>
        /\ Inserts(last.calls) = {}
        /\ (last.op \in ExecOps /\ caps.connExec) =>
              /\ Len(last.calls) = 1
              /\ last.calls[1].fn = "ExecContext"
              /\ last.calls[1].sql = last.sql
              /\ last.err = last.calls[1].err
        /\ \A i \in Named(last.calls, "BeginTx") : last.calls[i].ro

\* a modifying statement went through txConn.ExecContext in a transaction begun
\* in read-only mode
C16_Witness ==
    /\ readOnly
    /\ txState = "open"
    /\ last.op = "txConn.ExecContext"
    /\ Modifies(last.sql)
    /\ last.err = NoError
    /\ db.pendData # {}

\* C17: on a wrapped connection without the exec capability both ExecContext
\* handlers return the capability error having made no call, built no record
\* and buffered nothing, so that nothing is ever executed or recorded; on one
\* without the begin capability BeginTx returns its capability error having made
\* no call, and neither a transaction nor a buffer exists.
C17_MissingCapabilityFails ==
    /\ ~caps.connExec =>
          /\ last.op \in ExecOps =>
                /\ last.err = <<"connection does not support ExecContext">>
                /\ last.calls = <<>>
                /\ last.logs = <<>>
                /\ ~last.built
          /\ Records = {}
          /\ db.data = {} /\ db.pendData = {}
    /\ ~caps.connBeginTx =>
          /\ last.op = "Conn.BeginTx" =>
                /\ last.err = <<"connection does not support BeginTx">>
                /\ last.calls = <<>>
          /\ txState = "none" /\ buf = <<>>
          /\ ~db.active /\ db.txId = 0

\* an INSERT with a valid context went to txConn.ExecContext of a connection
\* without the exec capability
C17_Witness ==
    /\ ~caps.connExec
    /\ last.op = "txConn.ExecContext"
    /\ last.sql = SqlInsert
    /\ last.ctx = ValidCtx

-----------------------------------------------------------------------------
(* Concurrent callers.                                                     *)

\* the audit rows carrying the execution id of goroutine g
RowsOf(g) == {r \in db.audit : r.rec.ExecutionID = CallerCtx(g).executionID}

\* C18: with auditing on, in every interleaving of the goroutines' calls each
\* audit row carries the operator and execution id of one goroutine, a goroutine
\* between calls has exactly one row per call it completed and one in the middle
\* of a call at most one more, so that when all NumGoroutines goroutines have
\* completed their OperationsPerGoroutine inserts there are exactly
\* NumGoroutines * OperationsPerGoroutine rows, OperationsPerGoroutine for each
\* execution id.
C18_ConcurrentCallersAllAudited ==
    (~readOnly /\ callers # <<>>) =>
        /\ \A r \in db.audit : \E g \in Goroutines :
              /\ r.rec.ExecutionID = CallerCtx(g).executionID
              /\ r.rec.OperatorID = CallerCtx(g).operatorID
        /\ \A g \in Goroutines :
              /\ callers[g].pc \in {"idle", "done"} =>
                    Cardinality(RowsOf(g)) = callers[g].n
              /\ Cardinality(RowsOf(g)) \in {callers[g].n, callers[g].n + 1}
        /\ (\A g \in Goroutines : callers[g].pc = "done") =>
              /\ Cardinality(db.audit) = NumGoroutines * OperationsPerGoroutine
              /\ \A g \in Goroutines : Cardinality(RowsOf(g)) = OperationsPerGoroutine

\* every goroutine is inside its last call at once, its audit row written and
\* its INSERT still to come
C18_Witness ==
    /\ ~readOnly
    /\ callers # <<>>
    /\ \A g \in Goroutines :
          /\ callers[g].pc = "running"
          /\ callers[g].n = OperationsPerGoroutine - 1
          /\ Len(callers[g].todo) = 1
          /\ Cardinality(RowsOf(g)) = OperationsPerGoroutine

-----------------------------------------------------------------------------
(* Identifiers of a record.                                                *)

Attributed(rec) == rec.OperatorID # "" /\ rec.ExecutionID # ""

\* C19 as stated: whatever extractor the driver is configured with, every record
\* that exists, and every record a handler built, has a non-empty operator id
\* and a non-empty execution id.
C19_AsStated ==
    /\ \A rec \in Records : Attributed(rec)
    /\ (last.op \in ExecOps /\ last.built) => Attributed(LastBuild.mod)

-----------------------------------------------------------------------------
(* Filter chain.                                                           *)

Asked == asked.op = "TableFilters.ShouldLog"

\* C20: for every chain and every table name TableFilters.ShouldLog returns the
\* conjunction of what the members return for that name, and so true for the
\* empty chain.
C20_ShouldLogIsConjunction ==
    Asked =>
        /\ asked.result =
              (\A i \in 1..Len(tableFilters) :
                  FilterShouldLog(tableFilters[i], asked.tableName))
        /\ tableFilters = <<>> => asked.result

\* a chain whose first member accepts the name and whose last member rejects it
C20_Witness ==
    /\ Asked
    /\ Len(tableFilters) = MaxChain
    /\ FilterShouldLog(tableFilters[1], asked.tableName)
    /\ ~FilterShouldLog(tableFilters[Len(tableFilters)], asked.tableName)
    /\ ~asked.result

\* the name begins with the prefix
StartsWith(name, prefix) == \E rest \in {Drop(name, n) : n \in 0..Len(name)} : prefix \o rest = name

\* the name matches a glob pattern with at most one *: it is the pattern, or it
\* begins with what precedes the * and ends with what follows it
Globs(pattern, name) ==
    LET k == IndexOf(pattern, "*")
        pre == SubSeq(pattern, 1, k - 1)
        post == Drop(pattern, k)
    IN  IF k = 0 THEN name = pattern
        ELSE \E mid \in {SubSeq(name, i, j) : i \in 1..(Len(name) + 1), j \in 0..Len(name)} :
                pre \o mid \o post = name

\* the one member of a chain of one
OnlyFilter == tableFilters[1]

\* C21: asked alone, the exclude-by-prefix filter returns false exactly when the
\* name begins with one of its prefixes and the include-by-pattern filter returns
\* true exactly when the name matches one of its patterns: exclude-prefix
\* {temp_, log_} rejects temp_users and accepts users, include-pattern
\* {user*, order*} accepts users and rejects products.
C21_PrefixAndPatternFilters ==
    (Asked /\ Len(tableFilters) = 1) =>
        /\ OnlyFilter.kind = "ExcludePrefix" =>
              (~asked.result <=>
                  \E p \in OnlyFilter.patterns : StartsWith(asked.tableName, p))
        /\ OnlyFilter.kind = "IncludePattern" =>
              (asked.result <=> \E p \in OnlyFilter.patterns : Globs(p, asked.tableName))
        /\ (OnlyFilter = ExcludeTemp /\ asked.tableName = <<"temp_", "user", "s">>) =>
              ~asked.result
        /\ (OnlyFilter = ExcludeTemp /\ asked.tableName = <<"user", "s">>) => asked.result
        /\ (OnlyFilter = IncludeUserOrder /\ asked.tableName = <<"user", "s">>) =>
              asked.result
        /\ (OnlyFilter = IncludeUserOrder /\ asked.tableName = <<"products">>) =>
              ~asked.result

\* the exclude-by-prefix filter asked about a name that holds one of its prefixes
\* further in
C21_Witness ==
    /\ Asked
    /\ tableFilters = <<ExcludeTemp>>
    /\ asked.tableName = <<"my_", "temp_", "user", "s">>
    /\ asked.result

-----------------------------------------------------------------------------
(* Interpolation.                                                          *)

Interpolated == asked.op = "InterpolateSQL"

\* positions of the placeholders of a statement, and of the k-th of them: 0
\* before the first, one past the end after the last
PlaceholdersAt(q) == {i \in 1..Len(q) : q[i] \in Placeholders}
NthPlaceholder(q, k) ==
    IF k = 0 THEN 0
    ELSE IF k > Cardinality(PlaceholdersAt(q)) THEN Len(q) + 1
    ELSE CHOOSE p \in PlaceholdersAt(q) :
            Cardinality({j \in PlaceholdersAt(q) : j < p}) = k - 1

\* the statement text between the k-th placeholder and the next
Fragment(q, k) == SubSeq(q, NthPlaceholder(q, k) + 1, NthPlaceholder(q, k + 1) - 1)

\* a text with every quote character written twice
QuotesBefore(v, i) == Cardinality({j \in 1..(i - 1) : v[j] = "'"})
Doubled(v) ==
    [j \in 1..(Len(v) + QuotesBefore(v, Len(v) + 1)) |->
        v[CHOOSE i \in 1..Len(v) :
              /\ i + QuotesBefore(v, i) <= j
              /\ j <= i + QuotesBefore(v, i) + (IF v[i] = "'" THEN 1 ELSE 0)]]

\* the literal of a bound argument
Literal(arg) ==
    IF arg.t = "nil" THEN <<"NULL">>
    ELSE IF arg.t = "string" THEN <<"'">> \o Doubled(arg.v) \o <<"'">>
    ELSE <<"'">> \o arg.v \o <<"'">>

\* the statement with its k-th placeholder replaced by lits[k], from the text
\* after the k-th placeholder on
RECURSIVE Joined(_, _, _)
Joined(q, lits, k) ==
    Fragment(q, k) \o
        (IF k < Cardinality(PlaceholdersAt(q))
         THEN lits[k + 1] \o Joined(q, lits, k + 1)
         ELSE <<>>)

C24_AsStated ==
    (Interpolated /\ Len(asked.args) < Cardinality(PlaceholdersAt(asked.query))) =>
        asked.result =
            Joined(asked.query,
                   [k \in 1..Cardinality(PlaceholdersAt(asked.query)) |->
                       IF k <= Len(asked.args) THEN Literal(asked.args[k]) ELSE <<"?">>],
                   0)

-----------------------------------------------------------------------------
(* The statement of the example, end to end.                               *)

\* INSERT INTO "users" ("id","name") VALUES ('u1','O''Brien')
ExampleSQL ==
    <<"INSERT", " ", "INTO", " ", "\"", "users", "\"", " ", "(", "\"", "id", "\"", ",",
      "\"", "name", "\"", ")", " ", "VALUES", " ", "(", "'", "u1", "'", ",",
      "'", "O", "'", "'", "Brien", "'", ")">>

\* INSERT INTO "users" ("id","name") VALUES ('u1', 'O''Brien')
ExampleSQLSpaced ==
    <<"INSERT", " ", "INTO", " ", "\"", "users", "\"", " ", "(", "\"", "id", "\"", ",",
      "\"", "name", "\"", ")", " ", "VALUES", " ", "(", "'", "u1", "'", ",", " ",
      "'", "O", "'", "'", "Brien", "'", ")">>

\* the audit rows, pending or durable, written by the call that has just returned
RowsOfCall == {r \in db.audit \cup db.pendAudit : r.rec.ID = clock}

\* Conn.ExecContext of the example has just returned success
ExampleExecuted ==
    /\ last.op = "Conn.ExecContext"
    /\ last.sql = SqlInsertNamed
    /\ last.err = NoError

\* the record of the example but for its sql text
ExampleRecord(rec) ==
    /\ rec.TableName = <<"users">>
    /\ rec.Action = "insert"
    /\ rec.OperatorID = "op-1"
    /\ rec.ExecutionID = "ex-1"

\* C23 as stated: the execution yields exactly one audit row, of table users
\* and action insert, whose sql is
\* INSERT INTO "users" ("id","name") VALUES ('u1', 'O''Brien').
C23_AsStated ==
    ExampleExecuted =>
        /\ Cardinality(RowsOfCall) = 1
        /\ \A r \in RowsOfCall : ExampleRecord(r.rec) /\ r.rec.SQL = ExampleSQLSpaced

\* C23: the execution yields exactly one audit row, of table users and action
\* insert, whose sql is the statement with each placeholder replaced where it
\* stands: INSERT INTO "users" ("id","name") VALUES ('u1','O''Brien'); the record
\* buffered for the statement in a transaction is the same.
C23_ExampleRow ==
    /\ ExampleExecuted =>
          /\ Cardinality(RowsOfCall) = 1
          /\ \A r \in RowsOfCall : ExampleRecord(r.rec) /\ r.rec.SQL = ExampleSQL
    /\ \A rec \in Records : ExampleRecord(rec) /\ rec.SQL = ExampleSQL

C23_Witness ==
    /\ ExampleExecuted
    /\ \E r \in db.audit : r.rec.ID = clock /\ r.rec.SQL = ExampleSQL

-----------------------------------------------------------------------------
(* Classifier.                                                             *)

Classified == asked.op = "isDML"

\* C25 as stated: an INSERT, UPDATE or DELETE is accepted as modifying whatever
\* white space, line comments and block comments, in any order, and whatever
\* WITH clause, nested parentheses included, stand before its verb.
C25_AsStated ==
    (Classified /\ PgQueryParse(asked.sql).node \in DMLNodes) => asked.result

-----------------------------------------------------------------------------
(* Extractor.                                                              *)

Extracted == asked.op = "parseTableAction"

\* C26 as stated: for a statement that begins with INSERT INTO, UPDATE or DELETE
\* FROM the extractor returns the action of that verb and, as table, the first
\* identifier after it, quoting stripped and case kept, whatever text follows.
C26_AsStated ==
    Extracted =>
        /\ asked.result.err = NoError
        /\ asked.result.action = asked.verb
        /\ asked.result.table = asked.name

-----------------------------------------------------------------------------
(* Transparency.                                                           *)

\* the errors of the wrapper itself, which end ExecContext before the statement
WrapperErrors ==
    {"connection does not support ExecContext",
     "failed to build database modification",
     "failed to log database modification"}

AuditAborted == last.err # NoError /\ Head(last.err) \in WrapperErrors

\* C27: an ExecContext call that no failure of the audit pipeline ends runs the
\* caller's statement on the wrapped connection exactly once, with the text and
\* the arguments it was given, and returns the error that execution returned.
C27_StatementPassedUnchanged ==
    (last.op \in ExecOps /\ ~AuditAborted) =>
        /\ Cardinality(Primaries(last.calls)) = 1
        /\ \A i \in Primaries(last.calls) :
              /\ last.calls[i].on = "conn"
              /\ last.calls[i].sql = last.sql
              /\ last.calls[i].args = ArgsOf(last.sql)
              /\ last.err = last.calls[i].err

\* a modifying statement with arguments was audited and then ran, and failed
C27_Witness ==
    /\ last.op \in ExecOps
    /\ ~AuditAborted
    /\ last.built
    /\ ArgsOf(last.sql) # <<>>
    /\ last.err # NoError
    /\ Primaries(last.calls) # {}

-----------------------------------------------------------------------------
(* Consistency of data and audit log on the direct path.                   *)

\* the last call was a Conn.ExecContext outside a transaction for whose
\* statement a record was built
DirectAudited == last.op = "Conn.ExecContext" /\ ~db.active /\ last.built

\* the durable audit rows of the last call
RowsOfLast == {r \in db.audit : r.rec.ID = clock}

\* C28 as stated: after a Conn.ExecContext of a modifying statement outside a
\* transaction an audit row of the statement exists if and only if the statement
\* itself ran successfully on the wrapped connection.
C28_AsStated ==
    DirectAudited =>
        (RowsOfLast # {} <=> \E i \in Primaries(last.calls) : last.calls[i].err = NoError)

-----------------------------------------------------------------------------
(* The buffer is drained once; the end of a transaction.                   *)

\* a step of loggingTx.Commit or loggingTx.Rollback
EndStep == clock' # clock /\ last'.op \in {"loggingTx.Commit", "loggingTx.Rollback"}

\* the records of sequence ms
Members(ms) == {ms[i] : i \in DOMAIN ms}

\* the records the batch inserts of a handler's calls carry
Batched(calls) == UNION {Members(calls[i].recs) : i \in Inserts(calls)}

\* C29: when Commit or Rollback returns, whatever it returns, the buffer is
\* empty; a record enters the buffer only as the record just built, and a batch
\* insert carries only records that were in the buffer and are taken out of it by
\* that call, at most one batch per call: no record is in two batch inserts.
C29_BufferDrainedOnce ==
    [][/\ EndStep =>
            /\ buf' = <<>>
            /\ Cardinality(Inserts(last'.calls)) <= 1
            /\ \A i \in Inserts(last'.calls) : last'.calls[i].recs = buf
       /\ clock' # clock =>
            /\ Batched(last'.calls) \cap Members(buf') = {}
            /\ \A m \in Members(buf') \ Members(buf) : m.ID = clock'
            /\ last'.op \notin {"loggingTx.Commit", "Conn.ExecContext"} =>
                    Batched(last'.calls) = {}]_vars

\* a Commit has drained two records into one batch insert, which failed, and
\* has left the buffer empty
C29_Witness ==
    /\ last.op = "loggingTx.Commit"
    /\ buf = <<>>
    /\ Len(last.drained) = 2
    /\ \E i \in Inserts(last.calls) :
          last.calls[i].recs = last.drained /\ last.calls[i].err # NoError
    /\ last.err # NoError

\* C30 as stated: once Commit or Rollback has been invoked on a transaction, no
\* record is appended to its buffer any more and no audit insert, Commit or
\* Rollback of the wrapped transaction is issued for it, whichever of
\* ExecContext, Commit and Rollback is called on it again.
C30_AsStated ==
    [][(txState \in Done /\ txState' \in Done /\ clock' # clock) =>
          /\ Len(buf') <= Len(buf)
          /\ Inserts(last'.calls) = {}
          /\ Named(last'.calls, "Commit") = {}
          /\ Named(last'.calls, "Rollback") = {}]_vars

-----------------------------------------------------------------------------
(* No retries.                                                             *)

\* the handlers that write audit rows
AuditWriters == {"Conn.ExecContext", "loggingTx.Commit"}

\* C31: a Commit issues at most one batched audit insert and a Conn.ExecContext
\* at most one audit insert; when that insert fails the call returns an error
\* that carries the failure and nothing but the Rollback of a Commit follows it.
C31_NoRetries ==
    last.op \in AuditWriters =>
        /\ Cardinality(Inserts(last.calls)) <= 1
        /\ \A i \in Inserts(last.calls) :
              last.calls[i].err # NoError =>
                  /\ Carries(last.err, last.calls[i].err)
                  /\ \A j \in DOMAIN last.calls : j > i => last.calls[j].fn = "Rollback"

\* a direct audit insert failed and the call returned
C31_Witness ==
    /\ last.op = "Conn.ExecContext"
    /\ \E i \in Inserts(last.calls) : last.calls[i].err # NoError
    /\ last.err # NoError

-----------------------------------------------------------------------------
(* Reads within a transaction.                                             *)

\* a step of txConn.ExecContext or txConn.QueryContext with a statement that
\* reads
ReadStep ==
    /\ clock' # clock
    /\ last'.op \in {"txConn.ExecContext", "txConn.QueryContext"}
    /\ last'.sql \in Reads

\* the wrapped connection has the interface the call of the last step needs
Supported(op) ==
    IF op = "txConn.QueryContext" THEN caps.connQuery ELSE caps.connExec

\* C32: a statement that reads, issued within a transaction through ExecContext
\* or QueryContext, leaves the buffer as it was and is passed to the wrapped
\* connection once, with its text and arguments as given, the error of that call
\* being the one returned.
C32_ReadsPassThrough ==
    [][ReadStep =>
          /\ buf' = buf
          /\ ~last'.built
          /\ Supported(last'.op) =>
                /\ Len(last'.calls) = 1
                /\ last'.calls[1].fn =
                       (IF last'.op = "txConn.QueryContext" THEN "QueryContext"
                        ELSE "ExecContext")
                /\ last'.calls[1].on = "conn"
                /\ last'.calls[1].sql = last'.sql
                /\ last'.calls[1].args = ArgsOf(last'.sql)
                /\ last'.err = last'.calls[1].err]_vars

\* a SELECT with an argument went through QueryContext, after an INSERT of the
\* same transaction was buffered, by a caller without operator id
C32_Witness ==
    /\ last.op = "txConn.QueryContext"
    /\ last.sql = SqlSelectById
    /\ last.ctx = NoOperatorCtx
    /\ Len(buf) = 1
    /\ Len(last.calls) = 1
    /\ last.err = NoError

-----------------------------------------------------------------------------
(* Shape of the batch insert.                                              *)

Logged == asked.op = "log"

\* the parameters of a statement in the order they are written
RECURSIVE ParametersOf(_)
ParametersOf(q) ==
    IF q = <<>> THEN <<>>
    ELSE IF q[1] \in {Dollar(n) : n \in 1..(7 * (MaxBatch + 1))}
    THEN <<q[1]>> \o ParametersOf(Tail(q))
    ELSE ParametersOf(Tail(q))

\* the words of q after VALUES
AfterValues(q) == Drop(q, IndexOf(q, "VALUES"))

\* C33: for a batch of K records the statement of the commit-time insert has K
\* value tuples of seven parameters each, numbered 1 to 7K in the order written
\* with no number used twice, and the argument with ordinal 7*i + j carries the
\* j-th column of the i-th record (i from 0, j from 1).
C33_BatchShape ==
    Logged =>
        LET K == Len(asked.modifications)
            q == asked.query
        IN  /\ Cardinality({p \in 1..Len(q) : q[p] = "VALUES"}) = 1
            /\ Cardinality({p \in 1..Len(AfterValues(q)) : AfterValues(q)[p] = "("}) = K
            /\ ParametersOf(q) = [n \in 1..(7 * K) |-> Dollar(n)]
            /\ Len(asked.args) = 7 * K
            /\ \A i \in 0..(K - 1), j \in 1..7 :
                  /\ asked.args[7 * i + j].Ordinal = 7 * i + j
                  /\ asked.args[7 * i + j].Value = asked.modifications[i + 1][Columns[j]]

\* a batch of three records of which the first and the last differ
C33_Witness ==
    /\ Logged
    /\ Len(asked.modifications) = 3
    /\ asked.modifications[1].ID # asked.modifications[3].ID
    /\ asked.args[15].Value = asked.modifications[3].ID

-----------------------------------------------------------------------------
(* Statements that cannot be classified.                                   *)

\* a step of ExecContext, direct or in a transaction, with a statement the
\* parser rejects, on a connection that can execute
UnparsedStep ==
    /\ clock' # clock
    /\ last'.op \in ExecOps
    /\ PgQueryParse(last'.sql).node = "ParseError"
    /\ caps.connExec

\* C34: a statement that cannot be parsed is treated as not modifying and no
\* error of the wrapper's is returned: no record is built, written or buffered,
\* the statement is passed to the wrapped connection and what that returns is
\* returned.
C34_UnparsedPassesSilently ==
    [][UnparsedStep =>
          /\ ~last'.built
          /\ buf' = buf
          /\ Len(last'.calls) = 1
          /\ Primaries(last'.calls) = {1}
          /\ last'.calls[1].sql = last'.sql
          /\ last'.err = last'.calls[1].err]_vars

\* INSERT users oops, which passes the quick check and fails the parse, was
\* executed for a caller without operator id and returned no error
C34_Witness ==
    /\ last.op \in ExecOps
    /\ last.sql = SqlBrokenInsert
    /\ last.ctx = NoOperatorCtx
    /\ ~readOnly
    /\ last.err = NoError
    /\ Len(last.calls) = 1

-----------------------------------------------------------------------------
(* Buffers of concurrent transactions.                                     *)

\* the goroutines with an open transaction, and the buffer of g's
Open == {g \in Goroutines : callers[g].txState = "open"}
BufferOf(g) == buf[callers[g].buf]

\* the goroutine that made the last call
Caller(g) == last.ctx = CallerCtx(g)

-----------------------------------------------------------------------------
(* The secondary logger.                                                   *)

\* the records of the audit inserts of the last call that failed, and of those
\* that succeeded
FailedInserts ==
    UNION {Members(last.calls[i].recs) :
              i \in {j \in Inserts(last.calls) : last.calls[j].err # NoError}}
SucceededInserts ==
    UNION {Members(last.calls[i].recs) :
              i \in {j \in Inserts(last.calls) : last.calls[j].err = NoError}}

\* C36 as stated: the secondary logger is given a record if and only if the
\* direct audit insert of that record failed, the call then failing too; it is
\* never given a record whose audit insert, direct or batched, succeeded.
C36_AsStated ==
    /\ last.op = "Conn.ExecContext" =>
          /\ Members(last.logs) = FailedInserts
          /\ FailedInserts # {} => last.err # NoError
    /\ Members(last.logs) \cap SucceededInserts = {}

-----------------------------------------------------------------------------
(* Audit failures and database failures.                                   *)

\* the messages the wrapper puts in front of a failure of the audit pipeline
AuditWrappings ==
    {"failed to build database modification",
     "failed to log database modification",
     "failed to flush logs in transaction",
     "failed to rollback after audriver logging error"}

\* the last call met a failure of the audit pipeline: build failed, an audit
\* insert failed, or the records drained at Commit could not be inserted for
\* want of the interface
AuditFailed ==
    \/ /\ last.op \in ExecOps
       /\ caps.connExec /\ ~readOnly
       /\ LastBuild.err # NoError
    \/ \E i \in Inserts(last.calls) : last.calls[i].err # NoError
    \/ last.op = "loggingTx.Commit" /\ Len(last.drained) > 0 /\ ~caps.txExec

Handlers == {"Conn.ExecContext", "txConn.ExecContext", "loggingTx.Commit",
             "loggingTx.Rollback"}

\* C37: every failure of the audit pipeline (build, direct audit insert, batch
\* insert at Commit) reaches the caller under one of the wrapper's audit
\* messages; an error of the caller's own statement or of the wrapped Commit or
\* Rollback is returned as it is and never under such a message.
C37_AuditErrorsAreWrapped ==
    last.op \in Handlers =>
        /\ AuditFailed => (last.err # NoError /\ Head(last.err) \in AuditWrappings)
        /\ ~AuditFailed =>
              /\ last.err # NoError => Head(last.err) \notin AuditWrappings
              /\ (last.calls # <<>> /\ last.calls[Len(last.calls)].err # NoError
                  /\ last.calls[Len(last.calls)].fn # "Rollback") =>
                    last.err = last.calls[Len(last.calls)].err
              /\ last.op = "loggingTx.Rollback" => last.err = last.calls[1].err

\* a Commit whose batch insert failed has returned
C37_Witness ==
    /\ last.op = "loggingTx.Commit"
    /\ \E i \in Inserts(last.calls) : last.calls[i].err # NoError
    /\ last.err # NoError
    /\ Head(last.err) \in AuditWrappings

-----------------------------------------------------------------------------
(* Conn.ExecContext beside an open transaction.                            *)

\* a step of Conn.ExecContext
ConnExecStep == clock' # clock /\ last'.op = "Conn.ExecContext"

-----------------------------------------------------------------------------
(* Transaction options.                                                    *)

\* C39 as stated: with read-only mode off, the options Conn.BeginTx passes to
\* the wrapped connection are the caller's, a ReadOnly = true the caller asked
\* for included.
C39_AsStated ==
    (last.op = "Conn.BeginTx" /\ asked.op = "BeginTx" /\ ~readOnly) =>
        \A i \in Named(last.calls, "BeginTx") : last.calls[i].ro = asked.opts.ReadOnly

-----------------------------------------------------------------------------
(* Placeholders by number.                                                 *)

\* the number a placeholder names
NumberOf(p) == CHOOSE n \in 1..3 : p = Dollar(n)

\* C40 as stated: in the recorded sql each placeholder $k is replaced by the
\* literal of the argument with ordinal k, also when the placeholders are not
\* written in the order of their numbers.
C40_AsStated ==
    (/\ Interpolated
     /\ Cardinality(PlaceholdersAt(asked.query)) = Len(asked.args)) =>
        asked.result =
            Joined(asked.query,
                   [k \in 1..Len(asked.args) |->
                       Literal(asked.args[NumberOf(asked.query[NthPlaceholder(asked.query, k)])])],
                   0)


=============================================================================
